---- MODULE Spec2Model ----
(***************************************************************************)
(* State-machine model of the synthetic data generator                     *)
(* src/src/generate_bree_synthetic_data.py.                                *)
(*                                                                         *)
(* The script is one sequential run: users, experiment assignments,        *)
(* funnel sessions, bank transactions, loans.  Each component is a loop    *)
(* over the users table; every loop is modelled by its own specification   *)
(* whose initial states are the tables the earlier components can leave    *)
(* behind.  Every draw from the random stream is a nondeterministic choice *)
(* from a small named set.                                                 *)
(*                                                                         *)
(* Units: timestamps are whole hours since start_date (2025-01-01T00:00),  *)
(* dates are whole days since start_date, money is in mills (1/1000 of a   *)
(* dollar, so that round(x, 2) is a real rounding), risk scores are in     *)
(* 1/10000 (the generator emits round(base_risk, 4)) and probabilities are *)
(* in units of 1/PScale.  The empty string the script writes for an absent *)
(* optional field is the value Absent.                                     *)
(***************************************************************************)
EXTENDS Integers, Sequences, FiniteSets, TLC

VARIABLES users, users_df, assignments, sessions, txn_rows, loan_rows,
          written, pc, asg, ses, txn, ln, rng, config, earlier,
          dataframe, loader, dq

vars == <<users, users_df, assignments, sessions, txn_rows, loan_rows,
          written, pc, asg, ses, txn, ln, rng, config, earlier,
          dataframe, loader, dq>>

\* the state of the programs that read the generator's files: the frame of
\* data_reader.handle_duplicates, the DuckDBLoader of duckdb_pipeline and
\* the DataQualityRunner of data_quality_runner
downstream == <<dataframe, loader, dq>>

\* none of the three is running
DownstreamIdle ==
    /\ dataframe = [pos |-> "idle"]
    /\ loader = [pc |-> "idle"]
    /\ dq = [pc |-> "idle"]

(***************************************************************************)
(* Bounds of the model.                                                    *)
(***************************************************************************)
\* number of users generated (the script sets 10000)
N_USERS == 2
\* cap on the number of loan rows of one run: once it is reached, every
\* further request is drawn outside the window and dropped
MaxLoans == 1
\* cap on one day's Poisson number of expenses
MaxOut == 2
\* cap on the number of expense rows of one user's ledger
MaxTxns == 2
\* last simulated ledger day (the script simulates until 2025-07-31, day 211)
TxnEndDay == 8

(***************************************************************************)
(* Generic helpers.                                                        *)
(***************************************************************************)
Absent == -1

Min(a, b) == IF a <= b THEN a ELSE b

Max(a, b) == IF a >= b THEN a ELSE b

\* np.clip(x, lo, hi)
Clip(x, lo, hi) == Min(Max(x, lo), hi)

\* round(x, 2) on an amount in mills: nearest cent, ties to the even cent
Round2Pos(x) ==
    LET q == x \div 10
        r == x % 10
    IN  IF r < 5 THEN 10 * q
        ELSE IF r > 5 THEN 10 * (q + 1)
        ELSE IF q % 2 = 0 THEN 10 * q ELSE 10 * (q + 1)

Round2(x) == IF x >= 0 THEN Round2Pos(x) ELSE 0 - Round2Pos(0 - x)

\* x / y rounded to the nearest integer, ties to even (Python's round)
RoundHalfEven(x, y) ==
    LET q == x \div y
        r == x % y
    IN  IF 2 * r < y THEN q
        ELSE IF 2 * r > y THEN q + 1
        ELSE IF q % 2 = 0 THEN q ELSE q + 1

\* the elements of a sequence
Range(sq) == {sq[k] : k \in 1..Len(sq)}

\* the j-th smallest element of a finite set of integers
RECURSIVE NthSmallest(_, _)
NthSmallest(S, j) ==
    LET m == CHOOSE x \in S : \A y \in S : x <= y
    IN  IF j <= 1 THEN m ELSE NthSmallest(S \ {m}, j - 1)

(***************************************************************************)
(* The random streams (line 6).  random.seed(42) and np.random.seed(42)    *)
(* start two streams; every call of random.* takes the next value of the   *)
(* first one and every call of np.random.* the next value of the second.   *)
(* rng holds the seed and the number of values taken from each stream.     *)
(* A value of a seeded stream is a function of the seed and of its         *)
(* position alone.  A run whose rng is not seeded stands for the runs of   *)
(* all seeds: a draw is then any value of its set.                         *)
(***************************************************************************)
FreeStream == [seeded |-> FALSE, seed |-> 0, np |-> 0, py |-> 0]

\* line 6: both streams start from the seed
SeedStreams(seed) == [seeded |-> TRUE, seed |-> seed, np |-> 0, py |-> 0]

\* the value at position pos of stream st (1: np.random, 2: random) for a seed
StreamValue(seed, st, pos) ==
    ((((((seed + 3) * (pos + 5)) % 10007) * ((pos + st + 11) % 10007)) % 10007) * 7919
     + seed * seed * 31 + pos * 17) % 10007

\* the draw from S that a seeded stream makes at position pos
Seeded(S, seed, st, pos) ==
    {NthSmallest(S, (StreamValue(seed, st, pos) % Cardinality(S)) + 1)}

\* the k-th next call of np.random.* and of random.*, drawing from S
NpDraw(S, k) == IF rng.seeded THEN Seeded(S, rng.seed, 1, rng.np + k) ELSE S

\* calls of random.* on a stream that was not seeded
PyDraw_unseeded(S, k) == S

PyDraw(S, k) == IF rng.seeded THEN Seeded(S, rng.seed, 2, rng.py + k) ELSE S

\* the streams after n_np calls of np.random.* and n_py calls of random.*
Consume(n_np, n_py) ==
    IF rng.seeded THEN [rng EXCEPT !.np = @ + n_np, !.py = @ + n_py] ELSE rng

\* probabilities are in units of 1/PScale; np.random.rand() is in [0, 1)
PScale == 10 ^ 7

\* TRUE as 1
Count(b) == IF b THEN 1 ELSE 0

(***************************************************************************)
(* Calendar: datetime(2025, m, d) as days and hours since start_date.      *)
(***************************************************************************)
MonthStart == <<0, 31, 59, 90, 120, 151, 181, 212>>

DayNum(m, d) == MonthStart[m] + d - 1

Hours(day) == 24 * day

start_date == Hours(DayNum(1, 1))

end_date == Hours(DayNum(7, 31))

PROVINCES == <<"ON", "QC", "BC", "AB", "MB", "SK", "NS", "NB", "NL", "PE">>

CHANNELS == <<"organic", "paid_search", "paid_social", "referral", "affiliate", "email">>

DEVICES == <<"ios", "android">>

PAYFREQ == <<"weekly", "biweekly", "semimonthly", "monthly", "unknown">>

\* lines 63-68
EXPERIMENTS ==
    <<[name |-> "PriceTest_2025Q2", start |-> Hours(DayNum(3, 15)),
       end |-> Hours(DayNum(6, 30)), variants |-> <<"A", "B">>],
      [name |-> "TipPrompt_2025Q2", start |-> Hours(DayNum(4, 1)),
       end |-> Hours(DayNum(7, 15)),
       variants |-> <<"control", "persuasive", "social_proof">>]>>

\* the configuration as the script sets it (lines 18 and 63-68)
SourceConfig == [PAYFREQ |-> PAYFREQ, EXPERIMENTS |-> EXPERIMENTS]

\* no earlier run of the script has left its tables behind
NoRun == [runs |-> 0, tables |-> <<>>]

(***************************************************************************)
(* Users table (lines 26-59).  rand_date() is start_date plus a whole      *)
(* number of days in 0..(end_date - start_date).days; the model draws the  *)
(* day from a set of representative days of that range.  base_risk is in   *)
(* 1/100000, the emitted baseline_risk_score in 1/10000.                   *)
(***************************************************************************)
rand_date(days) == {Hours(d) : d \in {x \in days : 0 <= x /\ x <= DayNum(7, 31)}}

\* round(base_risk, 4)
Round4(base_risk) == RoundHalfEven(base_risk, 10)

\* lines 37-38
BaseRisk(beta, channel, province) ==
    Clip(beta + (IF channel \in {"paid_social", "affiliate"} THEN 3000 ELSE 0)
              + (IF province \in {"NB", "NL", "PE"} THEN 2000 ELSE 0), 0, 100000)

\* lines 40-45
Fico(base_risk) ==
    IF base_risk < 15000 THEN "740+"
    ELSE IF base_risk < 25000 THEN "680-739"
    ELSE IF base_risk < 40000 THEN "640-679"
    ELSE IF base_risk < 60000 THEN "580-639"
    ELSE IF base_risk < 80000 THEN "500-579"
    ELSE "<500"

\* line 34
BankLinkedAt(linked, signup_at, h) == IF linked THEN signup_at + h ELSE Absent

\* lines 47-57: the record of user uid whose drawn attributes are p
UserRow(uid, p) ==
    [user_id |-> uid,
     signup_at |-> p.signup_at,
     province |-> p.province,
     device_os |-> p.device_os,
     acquisition_channel |-> p.acquisition_channel,
     bank_linked_at |-> p.bank_linked_at,
     payroll_frequency |-> p.payroll_frequency,
     baseline_risk_score |-> Round4(p.base_risk),
     fico_band |-> Fico(p.base_risk)]

\* the drawn attributes of an organic Ontario user without a linked bank
Profile(signup_at, device_os, pfreq, base_risk) ==
    [signup_at |-> signup_at, province |-> "ON", device_os |-> device_os,
     acquisition_channel |-> "organic", bank_linked_at |-> Absent,
     payroll_frequency |-> pfreq, base_risk |-> base_risk]

\* the users tables whose rows take their attributes from the set profiles
UserTables(profiles) ==
    {[uid \in 1..N_USERS |-> UserRow(uid, f[uid])] : f \in [1..N_USERS -> profiles]}

\* the representative draws of the users loop: the signup day, the province
\* and the channel (with and without the risk offset), np.random.rand() of
\* line 33, the hours of np.random.exponential(30) and np.random.beta(2, 5)
UserSignupDays == {DayNum(1, 1), DayNum(4, 10), DayNum(7, 31)}

ProvinceDraws == <<"ON", "NB">>

ChannelDraws == <<"organic", "paid_social">>

LinkedDraws == {PScale \div 2}

BankDelayDraws == {30}

BetaDraws == {14996, 99000}

\* the payroll frequencies drawn at line 35: two of the script's own list and
\* every label of the configured list that the script's list does not have
PayFreqDraws(cfg) ==
    SelectSeq(cfg.PAYFREQ, LAMBDA f : f \in {"weekly", "monthly"} \/ f \notin Range(PAYFREQ))

\* a loop that counts from zero
LoopUid_zeroBased(done) == done

\* line 28: the uid of the iteration that follows done iterations of
\* range(1, N_USERS+1)
LoopUid(done) == done + 1

\* lines 28-57: one iteration of the users loop
UserGen ==
    /\ pc = "users"
    /\ Len(users) < N_USERS
    /\ \E signup_at \in PyDraw(rand_date(UserSignupDays), 0),
          pi \in NpDraw(1..Len(ProvinceDraws), 0),
          di \in PyDraw(1..Len(DEVICES), 1),
          ci \in NpDraw(1..Len(ChannelDraws), 1),
          r \in NpDraw(LinkedDraws, 2) :
          LET linked == r < 7200000
          IN  \E h \in IF linked THEN NpDraw(BankDelayDraws, 3) ELSE {0},
                    fi \in NpDraw(1..Len(PayFreqDraws(config)), 3 + Count(linked)),
                    beta \in NpDraw(BetaDraws, 4 + Count(linked)) :
                    /\ users' = Append(users,
                           UserRow(LoopUid(Len(users)),
                               [signup_at |-> signup_at,
                                province |-> ProvinceDraws[pi],
                                device_os |-> DEVICES[di],
                                acquisition_channel |-> ChannelDraws[ci],
                                bank_linked_at |-> BankLinkedAt(linked, signup_at, h),
                                payroll_frequency |-> PayFreqDraws(config)[fi],
                                base_risk |-> BaseRisk(beta, ChannelDraws[ci],
                                                       ProvinceDraws[pi])]))
                    /\ rng' = Consume(5 + Count(linked), 2)
    /\ UNCHANGED <<config, downstream, earlier, users_df, assignments, sessions, txn_rows, loan_rows,
                 written, pc, asg, ses, txn, ln>>

\* lines 58-59: the frame is built from the list and written
UsersFrame ==
    /\ pc = "users"
    /\ Len(users) >= N_USERS
    /\ users_df' = users
    /\ written' = written \cup {"users.csv"}
    /\ pc' = "users_done"
    /\ UNCHANGED <<users, rng, config, downstream, earlier, assignments, sessions, txn_rows, loan_rows,
                 asg, ses, txn, ln>>

(***************************************************************************)
(* Experiment assignment (lines 62-84).                                    *)
(***************************************************************************)
\* a window that leaves its two bounds out
InWindow_exclusive(first_seen, exp) == exp.start < first_seen /\ first_seen < exp.end

\* line 75: assigned if user active in window
InWindow(first_seen, exp) == exp.start <= first_seen /\ first_seen <= exp.end

\* a row keyed by the position of the user in the frame, which counts from 0
AssignmentRow_byIndex(row, exp, variant) ==
    [assignment_id |-> <<row.user_id, exp.name>>,
     user_id |-> row.user_id - 1,
     experiment_name |-> exp.name,
     variant |-> variant,
     assigned_at |-> row.signup_at]

\* lines 77-83
AssignmentRow(row, exp, variant) ==
    [assignment_id |-> <<row.user_id, exp.name>>,
     user_id |-> row.user_id,
     experiment_name |-> exp.name,
     variant |-> variant,
     assigned_at |-> row.signup_at]

\* one iteration of the inner loop (lines 71-83) for user asg.u, experiment asg.e
AssignIter ==
    /\ pc = "assign"
    /\ asg.u <= Len(users_df)
    /\ LET row == users_df[asg.u]
           exp == config.EXPERIMENTS[asg.e]
           nxt == IF asg.e < Len(config.EXPERIMENTS)
                  THEN [u |-> asg.u, e |-> asg.e + 1]
                  ELSE [u |-> asg.u + 1, e |-> 1]
       IN  /\ IF InWindow(row.signup_at, exp)
              THEN \E k \in NpDraw(1..Len(exp.variants), 0) :
                      assignments' =
                          Append(assignments, AssignmentRow(row, exp, exp.variants[k]))
              ELSE assignments' = assignments
           /\ rng' = Consume(Count(InWindow(row.signup_at, exp)), 0)
           /\ asg' = nxt
    /\ UNCHANGED <<users, config, downstream, earlier, users_df, sessions, txn_rows, loan_rows,
                 written, pc, ses, txn, ln>>

\* line 84: the assignments table is written once the loop is over
AssignWrite ==
    /\ pc = "assign"
    /\ asg.u > Len(users_df)
    /\ written' = written \cup {"ab_assignments.csv"}
    /\ pc' = "assign_done"
    /\ UNCHANGED <<users, rng, config, downstream, earlier, users_df, assignments, sessions,
                 txn_rows, loan_rows, asg, ses, txn, ln>>

\* locals of the components that are not running
asg0 == [u |-> 1, e |-> 1]

ses0 == [u |-> 1, ev |-> 1, progressed |-> TRUE]

txn0 ==
    [sample |-> <<>>, k |-> 1, pos |-> "idle", txns |-> <<>>, day |-> 0, balance |-> 0,
     paygap |-> 0, next_pay |-> 0, n_out |-> 0]

ln0 ==
    [u |-> 1, pos |-> "idle", entry |-> 0, rows |-> <<>>, n_loans |-> 0, i |-> 0,
     v_price |-> "A", v_tip |-> "control", requested_at |-> Absent, amount |-> 0,
     approved |-> FALSE, approved_at |-> Absent, disbursed_at |-> Absent,
     due_date |-> Absent, fee |-> 0, instant_fee |-> 0, tip |-> 0,
     approve_p |-> Absent, tip_p |-> Absent, default_p |-> Absent,
     defaulted |-> FALSE, repaid_at |-> Absent, late_days |-> 0,
     status |-> "requested", principal_repaid |-> 0, writeoff |-> 0]

InitUsers ==
    /\ users = <<>>
    /\ rng = FreeStream
    /\ config = SourceConfig
    /\ DownstreamIdle
    /\ earlier = NoRun
    /\ users_df = <<>>
    /\ assignments = <<>>
    /\ sessions = <<>>
    /\ txn_rows = <<>>
    /\ loan_rows = <<>>
    /\ written = {}
    /\ pc = "users"
    /\ asg = asg0
    /\ ses = ses0
    /\ txn = txn0
    /\ ln = ln0

NextUsers == UserGen \/ UsersFrame

SpecUsers == InitUsers /\ [][NextUsers]_vars

(***************************************************************************)
(* C14 - the population generator produces exactly N_USERS records whose   *)
(* user_id values are 1..N_USERS in increasing order without duplicates,   *)
(* each with signup_at inside [start_date, end_date].                      *)
(***************************************************************************)
UsersComplete ==
    /\ \A k \in 1..Len(users) :
          /\ users[k].user_id = k
          /\ start_date <= users[k].signup_at
          /\ users[k].signup_at <= end_date
    /\ Len(users) <= N_USERS
    /\ pc = "users_done" =>
          /\ Len(users_df) = N_USERS
          /\ \A k \in 1..Len(users_df) : users_df[k].user_id = k
          /\ \A j, k \in 1..Len(users_df) :
                users_df[j].user_id = users_df[k].user_id => j = k
          /\ \A k \in 1..Len(users_df) :
                start_date <= users_df[k].signup_at /\ users_df[k].signup_at <= end_date

\* the table is written and has a user who signed up on the first day of
\* the window and one who signed up on the last day
UsersCompleteWitness ==
    /\ pc = "users_done"
    /\ "users.csv" \in written
    /\ \E k \in 1..Len(users_df) : users_df[k].signup_at = start_date
    /\ \E k \in 1..Len(users_df) : users_df[k].signup_at = end_date

(***************************************************************************)
(* C17 - for every emitted user record baseline_risk_score lies in [0, 1]  *)
(* and fico_band is the band the fixed thresholds assign to the emitted    *)
(* baseline_risk_score: below 0.15 "740+", below 0.25 "680-739", below     *)
(* 0.40 "640-679", below 0.60 "580-639", below 0.80 "500-579", otherwise   *)
(* "<500".                                                                 *)
(***************************************************************************)
FicoMatchesEmittedScore ==
    \A k \in 1..Len(users) :
        LET score == users[k].baseline_risk_score
        IN  /\ 0 <= score
            /\ score <= 10000
            /\ users[k].fico_band =
                  (IF score < 1500 THEN "740+"
                   ELSE IF score < 2500 THEN "680-739"
                   ELSE IF score < 4000 THEN "640-679"
                   ELSE IF score < 6000 THEN "580-639"
                   ELSE IF score < 8000 THEN "500-579"
                   ELSE "<500")

\* representative signup days: the window ends, the experiment bounds and
\* their neighbours
AssignSignupDays ==
    {DayNum(1, 1), DayNum(3, 14), DayNum(3, 15), DayNum(4, 1), DayNum(6, 30),
     DayNum(7, 1), DayNum(7, 15), DayNum(7, 16), DayNum(7, 31)}

AssignProfiles ==
    {Profile(t, "ios", "biweekly", 25000) : t \in rand_date(AssignSignupDays)}

InitAssign ==
    /\ users_df \in UserTables(AssignProfiles)
    /\ users = users_df
    /\ rng = FreeStream
    /\ config = SourceConfig
    /\ DownstreamIdle
    /\ earlier = NoRun
    /\ assignments = <<>>
    /\ sessions = <<>>
    /\ txn_rows = <<>>
    /\ loan_rows = <<>>
    /\ written = {"users.csv"}
    /\ pc = "assign"
    /\ asg = asg0
    /\ ses = ses0
    /\ txn = txn0
    /\ ln = ln0

NextAssign == AssignIter \/ AssignWrite

SpecAssign == InitAssign /\ [][NextAssign]_vars

(***************************************************************************)
(* C6 - assignment window correctness: every assignment row belongs to a   *)
(* user whose signup lies in [start, end] of the row's experiment, both    *)
(* bounds included; there is at most one row per (user, experiment); and   *)
(* once the loop is over every (user, experiment) whose window contains    *)
(* the signup has a row.                                                   *)
(***************************************************************************)
HasAssignment(uid, name) ==
    \E k \in 1..Len(assignments) :
        assignments[k].user_id = uid /\ assignments[k].experiment_name = name

AssignmentWindowCorrect ==
    /\ \A k \in 1..Len(assignments) :
          \E e \in 1..Len(EXPERIMENTS) :
              /\ EXPERIMENTS[e].name = assignments[k].experiment_name
              /\ EXPERIMENTS[e].start <= users_df[assignments[k].user_id].signup_at
              /\ users_df[assignments[k].user_id].signup_at <= EXPERIMENTS[e].end
    /\ \A j, k \in 1..Len(assignments) :
          (/\ assignments[j].user_id = assignments[k].user_id
           /\ assignments[j].experiment_name = assignments[k].experiment_name) => j = k
    /\ pc = "assign_done" =>
          \A u \in 1..Len(users_df), e \in 1..Len(EXPERIMENTS) :
              (/\ EXPERIMENTS[e].start <= users_df[u].signup_at
               /\ users_df[u].signup_at <= EXPERIMENTS[e].end)
                  => HasAssignment(users_df[u].user_id, EXPERIMENTS[e].name)

\* a finished run with a user who signed up on the last day of the price test
\* (assigned) and a user who signed up the day after (not assigned)
AssignmentWindowWitness ==
    /\ pc = "assign_done"
    /\ \E u \in 1..Len(users_df) :
          /\ users_df[u].signup_at = EXPERIMENTS[1].end
          /\ HasAssignment(u, "PriceTest_2025Q2")
    /\ \E u \in 1..Len(users_df) :
          /\ users_df[u].signup_at = EXPERIMENTS[1].end + 24
          /\ ~HasAssignment(u, "PriceTest_2025Q2")
          /\ HasAssignment(u, "TipPrompt_2025Q2")

(***************************************************************************)
(* Funnel sessions (lines 87-116).                                         *)
(***************************************************************************)
RandDraws == {0, PScale \div 2, PScale - 1}

EVENTS ==
    <<[ev |-> "app_open", p |-> PScale],
      [ev |-> "view_onboarding", p |-> 9500000],
      [ev |-> "link_bank_start", p |-> 8000000],
      [ev |-> "link_bank_success", p |-> 7200000],
      [ev |-> "start_advance_request", p |-> 6000000],
      [ev |-> "submit_advance_request", p |-> 5200000],
      [ev |-> "approved", p |-> 4000000],
      [ev |-> "disbursed", p |-> 3900000]>>

\* line 110: the screen follows from substrings of the event name
Screen(ev) ==
    IF ev \in {"link_bank_start", "link_bank_success"} THEN "onboarding"
    ELSE IF ev \in {"start_advance_request", "submit_advance_request", "disbursed"}
         THEN "loan"
         ELSE "home"

\* random.randint(1, 10**9) of the event id and random.randint(0, 120) minutes
SessIdDraws == {424242}

SessMinuteDraws == {37}

SessionRow(u, ev, rid, minutes) ==
    [event_id |-> <<u.user_id, ev, rid>>,
     user_id |-> u.user_id,
     session_id |-> u.user_id,
     ts |-> 60 * u.signup_at + minutes,
     event_name |-> ev,
     screen |-> Screen(ev)]

\* a stage test that does not look at the flag
StagePasses_flagless(progressed, draw, p) == draw < p

\* line 103: the stage is passed while the flag is up and the draw is below p
StagePasses(progressed, draw, p) == progressed /\ draw < p

\* one iteration of the inner loop (lines 102-114) for user ses.u, stage ses.ev:
\* the event is emitted when the stage is passed, and the flag goes down
\* otherwise (rand() is evaluated only while the flag is up)
SessIter ==
    /\ pc = "sessions"
    /\ ses.u <= Len(users_df)
    /\ LET u == users_df[ses.u]
           stage == EVENTS[ses.ev]
       IN  \E draw \in NpDraw(RandDraws, 0), rid \in PyDraw(SessIdDraws, 0),
              minutes \in PyDraw(SessMinuteDraws, 1) :
              LET passed == StagePasses(ses.progressed, draw, stage.p)
              IN  /\ rng' = Consume(Count(ses.progressed), 2 * Count(passed))
                  /\ sessions' = IF passed
                                 THEN Append(sessions, SessionRow(u, stage.ev, rid, minutes))
                                 ELSE sessions
                  /\ ses' = IF ses.ev < Len(EVENTS)
                            THEN [u |-> ses.u, ev |-> ses.ev + 1, progressed |-> passed]
                            ELSE [u |-> ses.u + 1, ev |-> 1, progressed |-> TRUE]
    /\ UNCHANGED <<users, config, downstream, earlier, users_df, assignments, txn_rows,
                 loan_rows, written, pc, asg, txn, ln>>

\* line 116
SessWrite ==
    /\ pc = "sessions"
    /\ ses.u > Len(users_df)
    /\ written' = written \cup {"sessions.csv"}
    /\ pc' = "sessions_done"
    /\ UNCHANGED <<users, rng, config, downstream, earlier, users_df, assignments, sessions,
                 txn_rows, loan_rows, asg, ses, txn, ln>>

SessProfiles ==
    {Profile(t, "android", "biweekly", 25000) : t \in rand_date({DayNum(1, 1), DayNum(7, 31)})}

InitSessions ==
    /\ users_df \in UserTables(SessProfiles)
    /\ users = users_df
    /\ rng = FreeStream
    /\ config = SourceConfig
    /\ DownstreamIdle
    /\ earlier = NoRun
    /\ assignments = <<>>
    /\ sessions = <<>>
    /\ txn_rows = <<>>
    /\ loan_rows = <<>>
    /\ written = {"users.csv", "ab_assignments.csv"}
    /\ pc = "sessions"
    /\ asg = asg0
    /\ ses = ses0
    /\ txn = txn0
    /\ ln = ln0

NextSessions == SessIter \/ SessWrite

SpecSessions == InitSessions /\ [][NextSessions]_vars

(***************************************************************************)
(* C3 - funnel monotonicity: for every user the set of emitted event names *)
(* is the set of the first k names of EVENTS for some k; and once the      *)
(* progressed flag of a user is false it stays false and nothing more is   *)
(* emitted for that user.                                                  *)
(***************************************************************************)
EventNamesOf(uid) ==
    {sessions[k].event_name : k \in {j \in 1..Len(sessions) : sessions[j].user_id = uid}}

IsFunnelPrefix(names) ==
    \E k \in 0..Len(EVENTS) : names = {EVENTS[j].ev : j \in 1..k}

FunnelPrefixes == \A u \in 1..Len(users_df) : IsFunnelPrefix(EventNamesOf(users_df[u].user_id))

FunnelMonotone ==
    /\ []FunnelPrefixes
    /\ [][(~ses.progressed /\ ses'.u = ses.u)
             => (~ses'.progressed /\ sessions' = sessions)]_vars

\* a user dropped out in the middle of the funnel and the later stages were
\* all walked through without an event
FunnelWitness ==
    /\ pc = "sessions_done"
    /\ \E u \in 1..Len(users_df) :
          EventNamesOf(u) = {EVENTS[j].ev : j \in 1..6}
    /\ \E u \in 1..Len(users_df) :
          EventNamesOf(u) = {EVENTS[j].ev : j \in 1..Len(EVENTS)}

(***************************************************************************)
(* Transactions ledger (lines 119-172).  Days are whole days since         *)
(* 2025-01-01; the ledger runs from day 0 to TxnEndDay.                    *)
(***************************************************************************)
\* DataFrame.sample(frac=0.35): round(0.35 * len) rows without replacement
SampleSize(n) == RoundHalfEven(35 * n, 100)

\* the samples of size n among the row indices 1..len, in any order
Samples(len, n) ==
    {sq \in [1..n -> 1..len] : \A i, j \in 1..n : sq[i] = sq[j] => i = j}

\* a ledger loop over the whole users table
TxnLoopUsers_all(sample, table) == [k \in 1..Len(table) |-> k]

\* line 170: the ledger loop runs over sample_users
TxnLoopUsers(sample, table) == sample

\* line 125: the keys of the pay-gap table
HasPayGap(pfreq) == pfreq \in {"weekly", "biweekly", "semimonthly", "monthly", "unknown"}

\* line 169: random_state of the sample
SAMPLE_STATE == 42

\* line 125
PayGap(pfreq) ==
    CASE pfreq = "weekly" -> 7
      [] pfreq = "biweekly" -> 14
      [] pfreq = "semimonthly" -> 15
      [] pfreq = "monthly" -> 30
      [] pfreq = "unknown" -> 14

\* np.random.normal(200, 150), np.random.normal(950, 220) and
\* np.random.lognormal(3.2, 0.7), in mills
BalanceDraws == {0 - 50000, 200004}

PayrollDraws == {100000, 950004}

ExpenseDraws == {1000, 24534}

\* random.randint(0, paygap): the two ends of the range
OffsetDraws(paygap) == {0, paygap}

\* the category drawn at line 149 and the integer drawn at line 154
CategoryDraws == <<"groceries">>

TxnIdDraws == {1, 1000000}

ExpenseCount(txns) == Cardinality({k \in 1..Len(txns) : txns[k].is_payroll = 0})

PayrollRow(u, day, payroll_amt, balance) ==
    [txn_id |-> <<u.user_id, day, "in", 0>>,
     user_id |-> u.user_id,
     posted_date |-> day,
     amount |-> Round2(payroll_amt),
     direction |-> "inflow",
     mcc |-> "6011",
     category |-> "payroll",
     balance_after |-> Round2(balance),
     is_payroll |-> 1]

ExpenseRow(u, day, amt, cat, rid, balance) ==
    [txn_id |-> <<u.user_id, day, "out", rid>>,
     user_id |-> u.user_id,
     posted_date |-> day,
     amount |-> Round2(0 - amt),
     direction |-> "outflow",
     mcc |-> "0000",
     category |-> cat,
     balance_after |-> Round2(balance),
     is_payroll |-> 0]

\* an expense that is not floored
ExpenseAmt_unfloored(draw) == draw

\* line 146: amt = max(5, np.random.lognormal(...))
ExpenseAmt(draw) == Max(5000, draw)

\* a balance that stops at zero
Spend_clamped(balance, amt) == Max(0, balance - amt)

\* line 147: balance -= amt
Spend(balance, amt) == balance - amt

\* a payroll that waits for the day after its date
PayrollDue_late(day, next_pay) == day > next_pay

\* line 128
PayrollDue(day, next_pay) == day >= next_pay

\* the sample a seeded DataFrame.sample draws: a stretch of the rows that
\* starts where the sampler's own stream says
SeededSample(len, n) ==
    [i \in 1..n |-> ((StreamValue(SAMPLE_STATE, 3, 0) + i - 1) % len) + 1]

\* line 169: the sample is drawn once, from a stream of its own that is
\* seeded with random_state
TxnSample ==
    /\ pc = "txn_sample"
    /\ \E sq \in IF rng.seeded
                  THEN {SeededSample(Len(users_df), SampleSize(Len(users_df)))}
                  ELSE Samples(Len(users_df), SampleSize(Len(users_df))) :
          txn' = [txn0 EXCEPT !.sample = TxnLoopUsers(sq, users_df), !.pos = "call"]
    /\ pc' = "txn"
    /\ UNCHANGED <<users, rng, config, downstream, earlier, users_df, assignments, sessions,
                 txn_rows, loan_rows, written, asg, ses, ln>>

\* lines 120-126: entry of gen_transactions_for_user for the k-th sampled user
TxnUserBegin ==
    /\ pc = "txn"
    /\ txn.pos = "call"
    /\ txn.k <= Len(txn.sample)
    /\ HasPayGap(users_df[txn.sample[txn.k]].payroll_frequency)
    /\ LET u == users_df[txn.sample[txn.k]]
           paygap == PayGap(u.payroll_frequency)
       IN  \E b \in NpDraw(BalanceDraws, 0), off \in PyDraw(OffsetDraws(paygap), 0) :
              txn' = [txn EXCEPT !.pos = "day", !.txns = <<>>, !.day = 0,
                                 !.balance = Max(0, b), !.paygap = paygap,
                                 !.next_pay = (u.signup_at \div 24) + off, !.n_out = 0]
    /\ rng' = Consume(1, 1)
    /\ UNCHANGED <<users, config, downstream, earlier, users_df, assignments, sessions,
                 txn_rows, loan_rows, written, pc, asg, ses, ln>>

\* line 125: the lookup of a payroll frequency that has no entry raises
\* KeyError, which nothing catches: the script ends there
TxnKeyError ==
    /\ pc = "txn"
    /\ txn.pos = "call"
    /\ txn.k <= Len(txn.sample)
    /\ ~HasPayGap(users_df[txn.sample[txn.k]].payroll_frequency)
    /\ pc' = "KeyError"
    /\ rng' = Consume(1, 0)
    /\ UNCHANGED <<users, config, downstream, earlier, users_df, assignments, sessions,
                 txn_rows, loan_rows, written, asg, ses, txn, ln>>

\* lines 127-145: a day starts: the payroll if it is due, then the Poisson
\* number of expenses of the day
TxnDayBegin ==
    /\ pc = "txn"
    /\ txn.pos = "day"
    /\ txn.day <= TxnEndDay
    /\ LET u == users_df[txn.sample[txn.k]]
           due == PayrollDue(txn.day, txn.next_pay)
       IN  \E draw \in IF due THEN NpDraw(PayrollDraws, 0) ELSE {0},
              n \in NpDraw(0..Min(MaxOut, MaxTxns - ExpenseCount(txn.txns)), Count(due)) :
              LET payroll_amt == Max(400000, draw)
                  balance == IF due THEN txn.balance + payroll_amt ELSE txn.balance
              IN  /\ txn' = [txn EXCEPT
                             !.balance = balance,
                             !.txns = IF due
                                      THEN Append(@, PayrollRow(u, txn.day, payroll_amt, balance))
                                      ELSE @,
                             !.next_pay = IF due THEN @ + txn.paygap ELSE @,
                             !.n_out = n,
                             !.pos = "expenses"]
                  /\ rng' = Consume(Count(due) + 1, 0)
    /\ UNCHANGED <<users, config, downstream, earlier, users_df, assignments, sessions,
                 txn_rows, loan_rows, written, pc, asg, ses, ln>>

\* lines 146-163: one expense of the day
TxnExpense ==
    /\ pc = "txn"
    /\ txn.pos = "expenses"
    /\ txn.n_out > 0
    /\ LET u == users_df[txn.sample[txn.k]]
       IN  \E draw \in NpDraw(ExpenseDraws, 0), ci \in NpDraw(1..Len(CategoryDraws), 1),
              rid \in PyDraw(TxnIdDraws, 0) :
              LET amt == ExpenseAmt(draw)
                  balance == Spend(txn.balance, amt)
              IN  txn' = [txn EXCEPT
                             !.balance = balance,
                             !.txns = Append(@, ExpenseRow(u, txn.day, amt, CategoryDraws[ci],
                                                           rid, balance)),
                             !.n_out = @ - 1]
    /\ rng' = Consume(2, 1)
    /\ UNCHANGED <<users, config, downstream, earlier, users_df, assignments, sessions,
                 txn_rows, loan_rows, written, pc, asg, ses, ln>>

\* line 164
TxnDayEnd ==
    /\ pc = "txn"
    /\ txn.pos = "expenses"
    /\ txn.n_out = 0
    /\ txn' = [txn EXCEPT !.day = @ + 1, !.pos = "day"]
    /\ UNCHANGED <<users, rng, config, downstream, earlier, users_df, assignments, sessions,
                 txn_rows, loan_rows, written, pc, asg, ses, ln>>

\* lines 165 and 171: the user's ledger is returned and appended to txn_rows
TxnUserEnd ==
    /\ pc = "txn"
    /\ txn.pos = "day"
    /\ txn.day > TxnEndDay
    /\ txn_rows' = txn_rows \o txn.txns
    /\ txn' = [txn EXCEPT !.k = @ + 1, !.pos = "call", !.txns = <<>>]
    /\ UNCHANGED <<users, rng, config, downstream, earlier, users_df, assignments, sessions,
                 loan_rows, written, pc, asg, ses, ln>>

\* line 172
TxnWrite ==
    /\ pc = "txn"
    /\ txn.pos = "call"
    /\ txn.k > Len(txn.sample)
    /\ written' = written \cup {"transactions.csv"}
    /\ pc' = "txn_done"
    /\ UNCHANGED <<users, rng, config, downstream, earlier, users_df, assignments, sessions,
                 txn_rows, loan_rows, asg, ses, txn, ln>>

\* the users of the ledger runs signed up on 2025-01-02: a weekly user, a
\* monthly user, and weekly users after them
TxnProfile(uid) ==
    CASE uid = 2 -> Profile(Hours(DayNum(1, 2)), "android", "monthly", 25000)
      [] OTHER -> Profile(Hours(DayNum(1, 2)), "android", "weekly", 25000)

TxnUsers == [uid \in 1..N_USERS |-> UserRow(uid, TxnProfile(uid))]

InitTxn ==
    /\ users_df = TxnUsers
    /\ users = users_df
    /\ rng = FreeStream
    /\ config = SourceConfig
    /\ DownstreamIdle
    /\ earlier = NoRun
    /\ assignments = <<>>
    /\ sessions = <<>>
    /\ txn_rows = <<>>
    /\ loan_rows = <<>>
    /\ written = {"users.csv", "ab_assignments.csv", "sessions.csv"}
    /\ pc = "txn_sample"
    /\ asg = asg0
    /\ ses = ses0
    /\ txn = txn0
    /\ ln = ln0

NextTxn ==
    \/ TxnSample
    \/ TxnUserBegin
    \/ TxnDayBegin
    \/ TxnExpense
    \/ TxnDayEnd
    \/ TxnUserEnd
    \/ TxnWrite

SpecTxn == InitTxn /\ [][NextTxn]_vars

\* the rows emitted so far: the finished ledgers and the one being generated
EmittedTxns == txn_rows \o txn.txns

TxnsOf(uid) == SelectSeq(EmittedTxns, LAMBDA r : r.user_id = uid)

(***************************************************************************)
(* C4 - balance continuity: for every user and every two consecutive       *)
(* emitted records of that user, the emitted balance_after of the later    *)
(* one equals the emitted balance_after of the earlier one plus the        *)
(* emitted signed amount of the later one.                                 *)
(***************************************************************************)
BalanceContinuity ==
    \A u \in 1..Len(users_df) :
        LET rows == TxnsOf(users_df[u].user_id)
        IN  \A k \in 2..Len(rows) :
                rows[k].balance_after = rows[k - 1].balance_after + rows[k].amount

(***************************************************************************)
(* C10 - transactions exist only for the sampled subset: every emitted     *)
(* transaction belongs to a user of sample_users, so a user outside the    *)
(* sample has no transaction.                                              *)
(***************************************************************************)
SampleUserIds == {users_df[txn.sample[k]].user_id : k \in 1..Len(txn.sample)}

TxnsOnlyForSample ==
    /\ \A k \in 1..Len(EmittedTxns) : EmittedTxns[k].user_id \in SampleUserIds
    /\ pc \in {"txn", "txn_done"} =>
          /\ Len(txn.sample) = SampleSize(Len(users_df))
          /\ \A u \in 1..Len(users_df) :
                (\A k \in 1..Len(txn.sample) : txn.sample[k] # u)
                    => TxnsOf(users_df[u].user_id) = <<>>

\* the ledgers are written, the sampled user has rows and another user is
\* outside the sample
TxnsOnlyForSampleWitness ==
    /\ pc = "txn_done"
    /\ Len(txn_rows) >= 2
    /\ \E u \in 1..Len(users_df) : users_df[u].user_id \notin SampleUserIds

(***************************************************************************)
(* Loans (lines 175-261).                                                  *)
(***************************************************************************)
\* the assignment tables the loop of lines 68-83 can leave for a users table
RECURSIVE AssignRuns(_, _, _, _)
AssignRuns(table, u, e, acc) ==
    IF u > Len(table) THEN {acc}
    ELSE LET row == table[u]
             exp == EXPERIMENTS[e]
             nu == IF e < Len(EXPERIMENTS) THEN u ELSE u + 1
             ne == IF e < Len(EXPERIMENTS) THEN e + 1 ELSE 1
         IN  IF InWindow(row.signup_at, exp)
             THEN UNION {AssignRuns(table, nu, ne,
                                    Append(acc, AssignmentRow(row, exp, exp.variants[k])))
                         : k \in 1..Len(exp.variants)}
             ELSE AssignRuns(table, nu, ne, acc)

\* a lookup that always answers with the default
VariantOf_default(assign, uid, name, default) == default

\* a lookup that does not filter the assignments by user
VariantOf_anyUser(assign, uid, name, default) ==
    LET hits == {k \in 1..Len(assign) : assign[k].experiment_name = name}
    IN  IF hits = {} THEN default
        ELSE assign[CHOOSE k \in hits : \A j \in hits : k <= j].variant

\* lines 181-183: the variant of the user's first row of the experiment,
\* or the default
VariantOf(assign, uid, name, default) ==
    LET hits == {k \in 1..Len(assign) :
                    assign[k].user_id = uid /\ assign[k].experiment_name = name}
    IN  IF hits = {} THEN default
        ELSE assign[CHOOSE k \in hits : \A j \in hits : k <= j].variant

\* np.random.poisson(1.2) of line 178
LoanCountDraws == {0, 1, 2}

\* int(np.random.exponential(25)) and int(np.random.exponential(18)), in days
FirstGapDraws == {0, 250}

InterGapDraws == {0}

\* np.random.normal(140, 60), in mills
AmountDraws == {10000, 500000}

\* np.random.exponential(12) and np.random.exponential(6), in hours
ApproveDelayDraws == {12}

DisburseDelayDraws == {6}

\* np.random.normal(0.4, 0.2), in mills, and the instant fee of line 200
FeeNoiseDraws == {0 - 5000, 7000}

InstantFeeDraws == {0, 1990, 2990}

\* the tip denominations of line 208 that are drawn
TipDraws == {5000}

\* int(np.random.normal(1.4, 2.0)) and int(np.random.normal(20, 7))
LateRepaidDraws == {0 - 2, 3}

LateDefaultDraws == {0 - 1, 20}

\* np.random.uniform(0.6, 0.95), in 1/1000
WriteoffDraws == {600, 950}

\* np.random.rand() of line 250
AutopayDraws == {0}

\* line 185
RequestedAt(signup, i, g1, g2) == signup + Hours(g1 + i * Max(7, g2))

\* a window test that lets every request through
InSimWindow_open(t) == TRUE

\* line 186
InSimWindow(t) == start_date <= t /\ t <= end_date

\* line 187
Amount(draw) == Clip(draw, 40000, 350000)

\* lines 188-189: the approval probability compared with the draw
ApproveP(u) ==
    LET base_approve_p == 8200000 - 600 * u.baseline_risk_score
                          + (IF u.device_os = "ios" THEN 300000 ELSE 0)
    IN  Max(500000, Min(9500000, base_approve_p))

\* an approval time that is set whether or not the loan is approved
ApprovedAt_always(approved, requested_at, h) == requested_at + h

\* line 190
ApprovedAt(approved, requested_at, h) == IF approved THEN requested_at + h ELSE Absent

\* a disbursement that never happens
DisbursedAt_never(approved, approved_at, h) == Absent

\* line 191
DisbursedAt(approved, approved_at, h) == IF approved THEN approved_at + h ELSE Absent

\* line 192: the date of disbursed_at + 14 days
DueDate(approved, disbursed_at) ==
    IF approved THEN (disbursed_at + Hours(14)) \div 24 ELSE Absent

\* a fee that is drawn whatever the variant is
Fee_anyVariant(v_price, amount, noise) == Round2(Clip(amount \div 100 + noise, 0, 6000))

\* lines 195-199
Fee(v_price, amount, noise) ==
    IF v_price = "A" THEN 0 ELSE Round2(Clip(amount \div 100 + noise, 0, 6000))

\* lines 195-200
InstantFee(v_price, choice) == IF v_price = "A" THEN 0 ELSE Round2(choice)

\* line 203
TipUplift(v_tip) ==
    CASE v_tip = "control" -> 0
      [] v_tip = "persuasive" -> 600000
      [] v_tip = "social_proof" -> 300000

\* a clamp that lets every value through
Clamp_none(x, lo, hi) == x

\* np.clip of the probabilities of lines 206 and 213
Clamp(x, lo, hi) == Clip(x, lo, hi)

\* line 206
TipP(u, v_tip) ==
    Clamp(1200000 + TipUplift(v_tip) - 100 * u.baseline_risk_score, 100000, 4000000)

\* a tip that is drawn whether or not the loan is approved
TipAmount_unapproved(approved, taken, choice) == IF taken THEN Round2(choice) ELSE 0

\* lines 204-208: the tip is drawn for an approved loan only
TipAmount(approved, taken, choice) == IF approved /\ taken THEN Round2(choice) ELSE 0

\* line 211: the opt-in probability
OptInP(u) == 3200000 - 1800 * u.baseline_risk_score

\* lines 212-213
DefaultP(u, amount, instant_opt_in) ==
    Clamp(600000 + 4500 * u.baseline_risk_score + 5 * amount
          + (IF instant_opt_in THEN 200000 ELSE 0), 100000, 4500000)

\* a lateness that is not floored
LateRepaid_raw(draw) == draw

\* line 225
LateRepaid(draw) == Max(0, draw)

\* line 226
RepayTs(disbursed_at, late_days) == disbursed_at + Hours(14 + late_days)

\* a write-off of the whole amount
Writeoff_whole(amount, frac) == Round2(amount)

\* line 233: round(amount * uniform, 2), frac in 1/1000
Writeoff(amount, frac) == 10 * RoundHalfEven(amount * frac, 10000)

LoanRow(u, l, autopay) ==
    [loan_id |-> <<u.user_id, l.i + 1>>,
     user_id |-> u.user_id,
     requested_at |-> l.requested_at,
     approved_at |-> l.approved_at,
     disbursed_at |-> l.disbursed_at,
     due_date |-> l.due_date,
     repaid_at |-> l.repaid_at,
     amount |-> Round2(l.amount),
     fee |-> Round2(l.fee),
     tip_amount |-> Round2(l.tip),
     instant_transfer_fee |-> Round2(l.instant_fee),
     status |-> l.status,
     late_days |-> l.late_days,
     chargeoff_flag |-> IF l.status = "default" THEN 1 ELSE 0,
     autopay_enrolled |-> autopay,
     principal_repaid |-> Round2(l.principal_repaid),
     writeoff_amount |-> l.writeoff,
     price_variant |-> l.v_price,
     tip_variant |-> l.v_tip]

lnRest ==
    <<users, config, downstream, earlier, users_df, assignments, sessions, txn_rows,
      written, pc,
      asg, ses, txn>>

\* lines 177-183: entry of loan_rows_for_user for user ln.u; a user without
\* loans returns at once
LoanUserBegin ==
    /\ pc = "loans"
    /\ ln.pos = "call"
    /\ ln.u <= Len(users_df)
    /\ LET u == users_df[ln.u]
       IN  \E n \in NpDraw(LoanCountDraws, 0) :
              IF n = 0
              THEN ln' = [ln0 EXCEPT !.u = ln.u + 1, !.pos = "call"]
              ELSE ln' = [ln EXCEPT
                             !.pos = "loop", !.entry = rng.np,
                             !.rows = <<>>, !.n_loans = n, !.i = 0,
                             !.v_price = VariantOf(assignments, u.user_id,
                                                   "PriceTest_2025Q2", "A"),
                             !.v_tip = VariantOf(assignments, u.user_id,
                                                 "TipPrompt_2025Q2", "control")]
    /\ rng' = Consume(1, 0)
    /\ UNCHANGED <<loan_rows>>
    /\ UNCHANGED lnRest

\* line 186: a request outside the window is dropped
LoanDrop ==
    /\ pc = "loans"
    /\ ln.pos = "loop"
    /\ ln.i < ln.n_loans
    /\ LET u == users_df[ln.u]
       IN  \E g1 \in NpDraw(FirstGapDraws, 0), g2 \in NpDraw(InterGapDraws, 1) :
              /\ ~InSimWindow(RequestedAt(u.signup_at, ln.i, g1, g2))
              /\ ln' = [ln EXCEPT !.i = @ + 1,
                                  !.requested_at = RequestedAt(u.signup_at, ln.i, g1, g2)]
    /\ rng' = Consume(2, 0)
    /\ UNCHANGED <<loan_rows>>
    /\ UNCHANGED lnRest

\* an approval that is drawn after the pricing draws
ApprovalDrawAt_afterPricing(priced) == 3 + 2 * Count(priced)

\* lines 185-189: the calls of np.random.* a loan makes before the approval
\* draw (the two gaps and the amount), whatever the variant
ApprovalDrawAt(priced) == 3

\* lines 185-219: the draws of one loan whose request falls in the window.
\* The calls of np.random.* follow the order of the lines: the two gaps, the
\* amount, the approval draw, the two delays of an approved loan, the fee
\* noise and the instant fee of a priced variant, the tip draw of an
\* approved loan and the tip of a tipping one, the opt-in draw of an
\* approved loan with an instant fee, the default draw of an approved loan.
\* Only the runs whose draws are left open are cut at MaxLoans rows.
LoanDraw ==
    /\ pc = "loans"
    /\ ln.pos = "loop"
    /\ ln.i < ln.n_loans
    /\ IF rng.seeded THEN TRUE ELSE Len(loan_rows) + Len(ln.rows) < MaxLoans
    /\ LET u == users_df[ln.u]
           priced == ln.v_price # "A"
       IN  \E g1 \in NpDraw(FirstGapDraws, 0), g2 \in NpDraw(InterGapDraws, 1),
              a \in NpDraw(AmountDraws, 2),
              r1 \in NpDraw(RandDraws, ApprovalDrawAt(priced)) :
              LET requested_at == RequestedAt(u.signup_at, ln.i, g1, g2)
                  amount == Amount(a)
                  approve_p == ApproveP(u)
                  approved == r1 < approve_p
                  k1 == 4 + 2 * Count(approved)
                  k2 == k1 + 2 * Count(priced)
              IN  /\ InSimWindow(requested_at)
                  /\ \E h1 \in IF approved THEN NpDraw(ApproveDelayDraws, 4) ELSE {0},
                        h2 \in IF approved THEN NpDraw(DisburseDelayDraws, 5) ELSE {0},
                        noise \in IF priced THEN NpDraw(FeeNoiseDraws, k1) ELSE {0},
                        ifee \in IF priced THEN NpDraw(InstantFeeDraws, k1 + 1) ELSE {0},
                        r2 \in NpDraw(RandDraws, k2) :
                        LET approved_at == ApprovedAt(approved, requested_at, h1)
                            disbursed_at == DisbursedAt(approved, approved_at, h2)
                            fee == Fee(ln.v_price, amount, noise)
                            instant_fee == InstantFee(ln.v_price, ifee)
                            tip_p == IF approved THEN TipP(u, ln.v_tip) ELSE Absent
                            taken == approved /\ r2 < TipP(u, ln.v_tip)
                            k3 == k2 + Count(approved) + Count(taken)
                            asked == approved /\ instant_fee > 0
                            k4 == k3 + Count(asked)
                        IN  \E t \in NpDraw(TipDraws, k2 + 1),
                                  r3 \in IF asked THEN NpDraw(RandDraws, k3) ELSE {PScale},
                                  r4 \in IF approved THEN NpDraw(RandDraws, k4)
                                                     ELSE {PScale} :
                               LET instant_opt_in == asked /\ r3 < OptInP(u)
                                   default_p == DefaultP(u, amount, instant_opt_in)
                               IN  /\ ln' = [ln EXCEPT
                                             !.pos = "L220",
                                             !.requested_at = requested_at,
                                             !.amount = amount,
                                             !.approve_p = approve_p,
                                             !.approved = approved,
                                             !.approved_at = approved_at,
                                             !.disbursed_at = disbursed_at,
                                             !.due_date = DueDate(approved, disbursed_at),
                                             !.fee = fee,
                                             !.instant_fee = instant_fee,
                                             !.tip_p = tip_p,
                                             !.tip = TipAmount(approved,
                                                               r2 < TipP(u, ln.v_tip), t),
                                             !.default_p = default_p,
                                             !.defaulted = approved /\ r4 < default_p,
                                             !.repaid_at = Absent,
                                             !.late_days = 0,
                                             !.status = "requested",
                                             !.principal_repaid = 0,
                                             !.writeoff = 0]
                                   /\ rng' = Consume(k4 + Count(approved), 0)
    /\ UNCHANGED <<loan_rows>>
    /\ UNCHANGED lnRest

\* lines 220-221
LoanApprove ==
    /\ pc = "loans"
    /\ ln.pos = "L220"
    /\ ln' = IF ln.approved
             THEN [ln EXCEPT !.status = "approved", !.pos = "L222"]
             ELSE [ln EXCEPT !.pos = "emit"]
    /\ UNCHANGED <<loan_rows, rng>>
    /\ UNCHANGED lnRest

\* lines 222-223
LoanDisburse ==
    /\ pc = "loans"
    /\ ln.pos = "L222"
    /\ ln' = IF ln.disbursed_at # Absent
             THEN [ln EXCEPT !.status = "disbursed", !.pos = "L224"]
             ELSE [ln EXCEPT !.pos = "emit"]
    /\ UNCHANGED <<loan_rows, rng>>
    /\ UNCHANGED lnRest

\* lines 224-229
LoanRepay ==
    /\ pc = "loans"
    /\ ln.pos = "L224"
    /\ ~ln.defaulted
    /\ \E d \in NpDraw(LateRepaidDraws, 0) :
          LET late_days == LateRepaid(d)
          IN  ln' = [ln EXCEPT
                        !.late_days = late_days,
                        !.repaid_at = RepayTs(ln.disbursed_at, late_days),
                        !.status = "repaid",
                        !.principal_repaid = ln.amount,
                        !.pos = "emit"]
    /\ rng' = Consume(1, 0)
    /\ UNCHANGED <<loan_rows>>
    /\ UNCHANGED lnRest

\* lines 230-233
LoanDefault ==
    /\ pc = "loans"
    /\ ln.pos = "L224"
    /\ ln.defaulted
    /\ \E d \in NpDraw(LateDefaultDraws, 0), f \in NpDraw(WriteoffDraws, 1) :
          ln' = [ln EXCEPT
                    !.late_days = d,
                    !.status = "default",
                    !.writeoff = Writeoff(ln.amount, f),
                    !.pos = "emit"]
    /\ rng' = Consume(2, 0)
    /\ UNCHANGED <<loan_rows>>
    /\ UNCHANGED lnRest

\* the frame of loan_rows_for_user with the locals of one loan cleared: each
\* of them is assigned again (lines 187-219) before it is read; requested_at
\* keeps the request time of the last loan drawn until line 185 runs again
ClearLoan(l) ==
    [ln0 EXCEPT !.u = l.u, !.pos = l.pos, !.entry = l.entry,
                !.rows = l.rows, !.n_loans = l.n_loans,
                !.i = l.i, !.v_price = l.v_price, !.v_tip = l.v_tip,
                !.requested_at = l.requested_at]

\* lines 235-255: the row is appended to the user's rows
LoanEmit ==
    /\ pc = "loans"
    /\ ln.pos = "emit"
    /\ \E r \in NpDraw(AutopayDraws, 0) :
          ln' = ClearLoan([ln EXCEPT
                              !.rows = Append(@, LoanRow(users_df[ln.u], ln,
                                                         IF r < 6200000 THEN 1 ELSE 0)),
                              !.i = @ + 1,
                              !.pos = "loop"])
    /\ rng' = Consume(1, 0)
    /\ UNCHANGED <<loan_rows>>
    /\ UNCHANGED lnRest

\* lines 256 and 260: the user's rows are returned and appended to loan_rows
LoanUserEnd ==
    /\ pc = "loans"
    /\ ln.pos = "loop"
    /\ ln.i >= ln.n_loans
    /\ loan_rows' = loan_rows \o ln.rows
    /\ ln' = [ln0 EXCEPT !.u = ln.u + 1, !.pos = "call"]
    /\ UNCHANGED rng
    /\ UNCHANGED lnRest

\* line 261
LoanWrite ==
    /\ pc = "loans"
    /\ ln.pos = "call"
    /\ ln.u > Len(users_df)
    /\ written' = written \cup {"loans.csv"}
    /\ pc' = "loans_done"
    /\ UNCHANGED <<users, rng, config, downstream, earlier, users_df, assignments, sessions,
                 txn_rows, loan_rows, asg, ses, txn, ln>>

\* the users of the loans runs: a low-risk ios user who signed up on the first
\* day (outside both experiments), a high-risk android user inside both
\* experiments, and users who signed up on the last day of the window
LoanProfile(uid) ==
    CASE uid = 1 -> Profile(Hours(DayNum(1, 1)), "ios", "biweekly", 0)
      [] uid = 2 -> Profile(Hours(DayNum(4, 10)), "android", "biweekly", 100000)
      [] OTHER -> Profile(Hours(DayNum(7, 31)), "android", "biweekly", 50000)

LoanUsers == [uid \in 1..N_USERS |-> UserRow(uid, LoanProfile(uid))]

InitLoans ==
    /\ users_df = LoanUsers
    /\ users = users_df
    /\ rng = FreeStream
    /\ config = SourceConfig
    /\ DownstreamIdle
    /\ earlier = NoRun
    /\ assignments \in AssignRuns(users_df, 1, 1, <<>>)
    /\ sessions = <<>>
    /\ txn_rows = <<>>
    /\ loan_rows = <<>>
    /\ written = {"users.csv", "ab_assignments.csv", "sessions.csv", "transactions.csv"}
    /\ pc = "loans"
    /\ asg = asg0
    /\ ses = ses0
    /\ txn = txn0
    /\ ln = [ln0 EXCEPT !.pos = "call"]

NextLoans ==
    \/ LoanUserBegin
    \/ LoanDrop
    \/ LoanDraw
    \/ LoanApprove
    \/ LoanDisburse
    \/ LoanRepay
    \/ LoanDefault
    \/ LoanEmit
    \/ LoanUserEnd
    \/ LoanWrite

SpecLoans == InitLoans /\ [][NextLoans]_vars

(***************************************************************************)
(* The outcome of one loan (lines 215-256), from every frame line 213 can  *)
(* leave for the last user's only loan, the amount drawn at a finer grain. *)
(***************************************************************************)
\* np.random.normal(140, 60), in mills
OutcomeAmountDraws == {10000, 100006, 100014, 140000, 500000}

\* lines 185-213 for a request on the day of signup under variant "A"
OutcomeFrame(u, k, a, approved, defaulted) ==
    LET approved_at == ApprovedAt(approved, u.signup_at, 12)
        disbursed_at == DisbursedAt(approved, approved_at, 6)
    IN  [ln0 EXCEPT !.u = k, !.pos = "L220", !.n_loans = 1, !.i = 0,
                    !.requested_at = u.signup_at,
                    !.amount = Amount(a),
                    !.approve_p = ApproveP(u),
                    !.approved = approved,
                    !.approved_at = approved_at,
                    !.disbursed_at = disbursed_at,
                    !.due_date = DueDate(approved, disbursed_at),
                    !.tip_p = IF approved THEN TipP(u, "control") ELSE Absent,
                    !.default_p = DefaultP(u, Amount(a), FALSE),
                    !.defaulted = approved /\ defaulted]

InitOutcome ==
    /\ users_df = LoanUsers
    /\ users = users_df
    /\ rng = FreeStream
    /\ config = SourceConfig
    /\ DownstreamIdle
    /\ earlier = NoRun
    /\ assignments = <<>>
    /\ sessions = <<>>
    /\ txn_rows = <<>>
    /\ loan_rows = <<>>
    /\ written = {"users.csv", "ab_assignments.csv", "sessions.csv", "transactions.csv"}
    /\ pc = "loans"
    /\ asg = asg0
    /\ ses = ses0
    /\ txn = txn0
    /\ ln \in {OutcomeFrame(users_df[Len(users_df)], Len(users_df), a, approved, defaulted) :
                  a \in OutcomeAmountDraws, approved \in BOOLEAN, defaulted \in BOOLEAN}

NextOutcome ==
    \/ LoanApprove
    \/ LoanDisburse
    \/ LoanRepay
    \/ LoanDefault
    \/ LoanEmit
    \/ LoanUserEnd
    \/ LoanWrite

SpecOutcome == InitOutcome /\ [][NextOutcome]_vars

(***************************************************************************)
(* The whole script (lines 6-263): the five components one after the       *)
(* other, on streams seeded at line 6, and the script started again.       *)
(***************************************************************************)
\* line 68
AssignStart ==
    /\ pc = "users_done"
    /\ assignments' = <<>>
    /\ asg' = asg0
    /\ pc' = "assign"
    /\ UNCHANGED <<users, rng, config, downstream, earlier, users_df, sessions, txn_rows, loan_rows,
                 written, ses, txn, ln>>

\* line 98
SessStart ==
    /\ pc = "assign_done"
    /\ sessions' = <<>>
    /\ ses' = ses0
    /\ pc' = "sessions"
    /\ UNCHANGED <<users, rng, config, downstream, earlier, users_df, assignments, txn_rows, loan_rows,
                 written, asg, txn, ln>>

\* line 167
TxnStart ==
    /\ pc = "sessions_done"
    /\ txn_rows' = <<>>
    /\ txn' = txn0
    /\ pc' = "txn_sample"
    /\ UNCHANGED <<users, rng, config, downstream, earlier, users_df, assignments, sessions, loan_rows,
                 written, asg, ses, ln>>

\* line 258
LoanStart ==
    /\ pc = "txn_done"
    /\ loan_rows' = <<>>
    /\ ln' = [ln0 EXCEPT !.pos = "call"]
    /\ pc' = "loans"
    /\ UNCHANGED <<users, rng, config, downstream, earlier, users_df, assignments, sessions, txn_rows,
                 written, asg, ses, txn>>

\* the five tables of a run
Tables ==
    [users |-> users_df, ab_assignments |-> assignments, sessions |-> sessions,
     transactions |-> txn_rows, loans |-> loan_rows]

\* the script is run a second time: line 6 seeds the streams again and every
\* name is bound anew; the tables of the first run are kept for comparison
Rerun ==
    /\ pc = "loans_done"
    /\ earlier.runs = 0
    /\ earlier' = [runs |-> 1, tables |-> Tables]
    /\ rng' = SeedStreams(rng.seed)
    /\ users' = <<>>
    /\ users_df' = <<>>
    /\ assignments' = <<>>
    /\ sessions' = <<>>
    /\ txn_rows' = <<>>
    /\ loan_rows' = <<>>
    /\ written' = {}
    /\ pc' = "users"
    /\ asg' = asg0
    /\ ses' = ses0
    /\ txn' = txn0
    /\ ln' = ln0
    /\ UNCHANGED <<config, downstream>>

\* the seeds of the seeded runs; the script sets 42
Seeds == 1..60

InitRun ==
    /\ users = <<>>
    /\ rng \in {SeedStreams(seed) : seed \in Seeds}
    /\ config = SourceConfig
    /\ DownstreamIdle
    /\ earlier = NoRun
    /\ users_df = <<>>
    /\ assignments = <<>>
    /\ sessions = <<>>
    /\ txn_rows = <<>>
    /\ loan_rows = <<>>
    /\ written = {}
    /\ pc = "users"
    /\ asg = asg0
    /\ ses = ses0
    /\ txn = txn0
    /\ ln = ln0

\* one pass of the script
NextOnce ==
    \/ NextUsers
    \/ AssignStart
    \/ NextAssign
    \/ SessStart
    \/ NextSessions
    \/ TxnStart
    \/ NextTxn
    \/ LoanStart
    \/ NextLoans

NextRun == NextOnce \/ Rerun

SpecRun == InitRun /\ [][NextRun]_vars

\* the configurations of the runs that look at configuration errors: the
\* script's own, one whose PAYFREQ has a label without a pay gap, and one
\* whose second experiment ends on 2025-08-15, after end_date
Configs ==
    {SourceConfig,
     [SourceConfig EXCEPT !.PAYFREQ = Append(PAYFREQ, "daily")],
     [SourceConfig EXCEPT !.EXPERIMENTS[2].end = Hours(DayNum(8, 15))]}

InitConfig ==
    /\ users = <<>>
    /\ rng \in {SeedStreams(seed) : seed \in Seeds}
    /\ config \in Configs
    /\ DownstreamIdle
    /\ earlier = NoRun
    /\ users_df = <<>>
    /\ assignments = <<>>
    /\ sessions = <<>>
    /\ txn_rows = <<>>
    /\ loan_rows = <<>>
    /\ written = {}
    /\ pc = "users"
    /\ asg = asg0
    /\ ses = ses0
    /\ txn = txn0
    /\ ln = ln0

NextConfig == NextOnce \/ TxnKeyError

SpecConfig == InitConfig /\ [][NextConfig]_vars

(***************************************************************************)
(* The loans loop run twice on the same users, from the same positions of  *)
(* the seeded streams, the second time with the experiment variants of one *)
(* user changed.                                                           *)
(***************************************************************************)
\* the assignment tables that differ from assign in the variants of exactly
\* one user
OtherVariantTables(assign) ==
    {t \in AssignRuns(users_df, 1, 1, <<>>) :
        /\ t # assign
        /\ \E x \in 1..Len(users_df) :
              \A k \in 1..Len(t) : t[k] # assign[k] => t[k].user_id = users_df[x].user_id}

\* lines 258-261 once more, the streams back where they were, on the other
\* variants
RerunOtherVariant ==
    /\ pc = "loans_done"
    /\ earlier.runs = 0
    /\ earlier' = [runs |-> 1, tables |-> Tables]
    /\ assignments' \in OtherVariantTables(assignments)
    /\ rng' = SeedStreams(rng.seed)
    /\ loan_rows' = <<>>
    /\ written' = written \ {"loans.csv"}
    /\ pc' = "loans"
    /\ ln' = [ln0 EXCEPT !.pos = "call"]
    /\ UNCHANGED <<users, config, downstream, users_df, sessions, txn_rows, asg, ses, txn>>

\* lines 26-59: the users of the two runs: user 1 signs up on April 10, in
\* the window of both experiments, the others on July 31, in neither
VariantProfile(uid) ==
    CASE uid = 1 -> Profile(Hours(DayNum(4, 10)), "android", "biweekly", 50000)
      [] OTHER -> Profile(Hours(DayNum(7, 31)), "ios", "biweekly", 0)

VariantUsers == [uid \in 1..N_USERS |-> UserRow(uid, VariantProfile(uid))]

InitVariants ==
    /\ users_df = VariantUsers
    /\ users = users_df
    /\ rng \in {SeedStreams(seed) : seed \in Seeds}
    /\ config = SourceConfig
    /\ DownstreamIdle
    /\ earlier = NoRun
    /\ assignments \in AssignRuns(users_df, 1, 1, <<>>)
    /\ sessions = <<>>
    /\ txn_rows = <<>>
    /\ loan_rows = <<>>
    /\ written = {"users.csv", "ab_assignments.csv", "sessions.csv", "transactions.csv"}
    /\ pc = "loans"
    /\ asg = asg0
    /\ ses = ses0
    /\ txn = txn0
    /\ ln = [ln0 EXCEPT !.pos = "call"]

NextVariants == NextLoans \/ RerunOtherVariant

SpecVariants == InitVariants /\ [][NextVariants]_vars

\* the users whose variants differ between the two runs
ChangedUsers ==
    {assignments[k].user_id :
        k \in {j \in 1..Len(assignments) : assignments[j] # earlier.tables.ab_assignments[j]}}

\* the rows of a loans table that belong to user uid
LoansOfIn(table, uid) == SelectSeq(table, LAMBDA r : r.user_id = uid)

(***************************************************************************)
(* The loans loop run twice from the same seed: the first run up to the    *)
(* return of loan_rows_for_user for some user, the second on a population  *)
(* that has this user, with the same attributes and the same assignments,  *)
(* among other users.  ln.entry is the position of the np.random stream    *)
(* at which the call for the current user started.                         *)
(***************************************************************************)
\* lines 26-59: the attributes another user may have in the place of uid's
AltProfile(uid) == Profile(Hours(DayNum(7, 31)), "android", "biweekly", 50000)

\* the assignment rows of user uid
AssignmentsOf(assign, uid) == SelectSeq(assign, LAMBDA a : a.user_id = uid)

\* the users tables that have user u in its place, followed by any number
\* of users, and the other users with the one profile or the other
PopulationsWith(u) ==
    UNION {{[k \in 1..n |-> IF k = u.user_id THEN u ELSE UserRow(k, LoanProfile(k))],
            [k \in 1..n |-> IF k = u.user_id THEN u ELSE UserRow(k, AltProfile(k))]}
           : n \in u.user_id..N_USERS}

\* lines 258-260 once more from the seed, on another population around the
\* user whose rows are about to be returned
RerunOtherUsers ==
    /\ pc = "loans"
    /\ ln.pos = "loop"
    /\ ln.i >= ln.n_loans
    /\ earlier.runs = 0
    /\ LET u == users_df[ln.u]
       IN  /\ earlier' = [runs |-> 1, tables |-> Tables, user |-> u,
                          entry |-> ln.entry, rows |-> ln.rows]
           /\ \E t \in PopulationsWith(u) :
                 /\ users_df' = t
                 /\ assignments' \in
                       {a \in AssignRuns(t, 1, 1, <<>>) :
                           /\ AssignmentsOf(a, u.user_id)
                                = AssignmentsOf(assignments, u.user_id)
                           /\ <<t, a>> # <<users_df, assignments>>}
    /\ users' = users_df'
    /\ rng' = SeedStreams(rng.seed)
    /\ loan_rows' = <<>>
    /\ ln' = [ln0 EXCEPT !.pos = "call"]
    /\ UNCHANGED <<config, downstream, sessions, txn_rows, written, pc, asg, ses, txn>>

InitOthers ==
    /\ users_df = LoanUsers
    /\ users = users_df
    /\ rng \in {SeedStreams(seed) : seed \in Seeds}
    /\ config = SourceConfig
    /\ DownstreamIdle
    /\ earlier = NoRun
    /\ assignments \in AssignRuns(users_df, 1, 1, <<>>)
    /\ sessions = <<>>
    /\ txn_rows = <<>>
    /\ loan_rows = <<>>
    /\ written = {"users.csv", "ab_assignments.csv", "sessions.csv", "transactions.csv"}
    /\ pc = "loans"
    /\ asg = asg0
    /\ ses = ses0
    /\ txn = txn0
    /\ ln = [ln0 EXCEPT !.pos = "call"]

NextOthers == NextLoans \/ RerunOtherUsers

SpecOthers == InitOthers /\ [][NextOthers]_vars

\* the loan rows emitted so far: the finished users' and the current user's
EmittedLoans == loan_rows \o ln.rows

Present(t) == t # Absent

(***************************************************************************)
(* C1 - loan status/timestamp consistency: an emitted loan with status     *)
(* "repaid" has approved_at, disbursed_at and repaid_at present and        *)
(* repaid_at >= disbursed_at; one with status "default" has disbursed_at   *)
(* present and repaid_at absent; one with status "requested" has           *)
(* approved_at absent.                                                     *)
(***************************************************************************)
StatusTimestampsConsistent ==
    \A k \in 1..Len(EmittedLoans) :
        LET r == EmittedLoans[k]
        IN  /\ r.status = "repaid" =>
                  /\ Present(r.approved_at)
                  /\ Present(r.disbursed_at)
                  /\ Present(r.repaid_at)
                  /\ r.repaid_at >= r.disbursed_at
            /\ r.status = "default" => Present(r.disbursed_at) /\ ~Present(r.repaid_at)
            /\ r.status = "requested" => ~Present(r.approved_at)

\* the run is over and its table has a loan that was repaid on its due date
StatusTimestampsWitness ==
    /\ pc = "loans_done"
    /\ \E k \in 1..Len(loan_rows) :
          /\ loan_rows[k].status = "repaid"
          /\ loan_rows[k].late_days = 0
          /\ loan_rows[k].repaid_at > loan_rows[k].disbursed_at

(***************************************************************************)
(* C2 - as stated: on every emitted loan that was not approved (status     *)
(* "requested") amount, fee, tip_amount, instant_transfer_fee,             *)
(* principal_repaid and writeoff_amount are all zero.                      *)
(***************************************************************************)
UnapprovedMoneyAllZero ==
    \A k \in 1..Len(EmittedLoans) :
        LET r == EmittedLoans[k]
        IN  r.status = "requested" =>
                /\ r.amount = 0
                /\ r.fee = 0
                /\ r.tip_amount = 0
                /\ r.instant_transfer_fee = 0
                /\ r.principal_repaid = 0
                /\ r.writeoff_amount = 0

(***************************************************************************)
(* C2 - as amended: on every emitted loan that was not approved            *)
(* tip_amount, principal_repaid and writeoff_amount are zero; the amount   *)
(* is the requested amount (at least 40.00) and fee and                    *)
(* instant_transfer_fee are zero when the price variant is "A".            *)
(***************************************************************************)
UnapprovedOutcomeMoneyZero ==
    \A k \in 1..Len(EmittedLoans) :
        LET r == EmittedLoans[k]
        IN  r.status = "requested" =>
                /\ r.tip_amount = 0
                /\ r.principal_repaid = 0
                /\ r.writeoff_amount = 0
                /\ r.amount >= 40000
                /\ r.price_variant = "A" => r.fee = 0 /\ r.instant_transfer_fee = 0

\* a loan of the fee-charging variant that was not approved and carries a fee
UnapprovedMoneyWitness ==
    \E k \in 1..Len(loan_rows) :
        /\ loan_rows[k].status = "requested"
        /\ loan_rows[k].price_variant = "B"
        /\ loan_rows[k].fee > 0
        /\ loan_rows[k].instant_transfer_fee > 0

(***************************************************************************)
(* C5 - pricing by variant: an emitted loan of price variant "A" has       *)
(* fee = 0 and instant_transfer_fee = 0; one of variant "B" has a fee in   *)
(* [0, 6.00] and an instant_transfer_fee of 0, 1.99 or 2.99.               *)
(***************************************************************************)
PricingByVariant ==
    \A k \in 1..Len(EmittedLoans) :
        LET r == EmittedLoans[k]
        IN  /\ r.price_variant \in {"A", "B"}
            /\ r.price_variant = "A" => r.fee = 0 /\ r.instant_transfer_fee = 0
            /\ r.price_variant = "B" =>
                  /\ 0 <= r.fee /\ r.fee <= 6000
                  /\ r.instant_transfer_fee \in {0, 1990, 2990}

\* an approved loan of variant "B" whose fee was clipped to 6.00 and that
\* paid the 2.99 instant fee
PricingWitness ==
    \E k \in 1..Len(loan_rows) :
        /\ loan_rows[k].price_variant = "B"
        /\ loan_rows[k].status = "repaid"
        /\ loan_rows[k].fee = 6000
        /\ loan_rows[k].instant_transfer_fee = 2990

(***************************************************************************)
(* C7 - every approved loan is disbursed and resolves: no emitted loan has *)
(* approved_at present and disbursed_at absent; the emitted status is      *)
(* "requested" (and then the loan was not approved), "repaid" or           *)
(* "default"; and while a loan is generated its status only moves along    *)
(* requested -> approved -> disbursed -> repaid | default.                 *)
(***************************************************************************)
StatusEdges ==
    {<<"requested", "approved">>, <<"approved", "disbursed">>,
     <<"disbursed", "repaid">>, <<"disbursed", "default">>}

LoanInProgress(l) == l.pos \in {"L220", "L222", "L224", "emit"}

EmittedLoansResolved ==
    \A k \in 1..Len(EmittedLoans) :
        LET r == EmittedLoans[k]
        IN  /\ Present(r.approved_at) => Present(r.disbursed_at)
            /\ r.status \in {"requested", "repaid", "default"}
            /\ r.status = "requested" => ~Present(r.approved_at)
            /\ r.status \in {"repaid", "default"} => Present(r.approved_at)

ApprovedLoansResolve ==
    /\ []EmittedLoansResolved
    /\ [][/\ (LoanInProgress(ln) /\ LoanInProgress(ln') /\ ln'.status # ln.status)
               => <<ln.status, ln'.status>> \in StatusEdges
          /\ (ln.pos = "loop" /\ LoanInProgress(ln')) => ln'.status = "requested"]_vars

\* a loan that went through approved and disbursed is about to be emitted as
\* a default
ApprovedLoansWitness ==
    /\ ln.pos = "emit"
    /\ ln.status = "default"
    /\ Present(ln.approved_at)
    /\ Present(ln.disbursed_at)

(***************************************************************************)
(* C8 - milestone ordering: on every emitted loan a populated milestone    *)
(* implies the earlier ones (repaid_at => disbursed_at => approved_at =>   *)
(* requested_at), the populated milestones are ordered requested_at <=     *)
(* approved_at <= disbursed_at, and a repaid loan has                      *)
(* repaid_at = disbursed_at + 14 days + late_days with late_days >= 0.     *)
(***************************************************************************)
MilestonesOrdered ==
    \A k \in 1..Len(EmittedLoans) :
        LET r == EmittedLoans[k]
        IN  /\ Present(r.requested_at)
            /\ Present(r.repaid_at) => Present(r.disbursed_at)
            /\ Present(r.disbursed_at) => Present(r.approved_at)
            /\ Present(r.approved_at) => r.requested_at <= r.approved_at
            /\ Present(r.disbursed_at) => r.approved_at <= r.disbursed_at
            /\ r.status = "repaid" =>
                  /\ r.late_days >= 0
                  /\ r.repaid_at = r.disbursed_at + 24 * 14 + 24 * r.late_days

\* a repaid loan whose lateness draw was negative and floored to zero, or a
\* repaid loan that was three days late
MilestonesWitness ==
    \E k \in 1..Len(loan_rows) :
        /\ loan_rows[k].status = "repaid"
        /\ loan_rows[k].late_days = 3
        /\ loan_rows[k].repaid_at = loan_rows[k].disbursed_at + 24 * 17

EmittedRequestsInWindow ==
    /\ \A k \in 1..Len(EmittedLoans) :
          LET r == EmittedLoans[k]
          IN  /\ start_date <= r.requested_at
              /\ r.requested_at <= end_date
              /\ r.requested_at >= users_df[r.user_id].signup_at
    /\ Len(ln.rows) <= ln.i
    /\ ln.i <= ln.n_loans

OutOfWindowDropped ==
    /\ []EmittedRequestsInWindow
    /\ [][/\ (ln.pos = "loop" /\ ln'.pos = "loop" /\ ln'.i = ln.i + 1)
               => (ln'.rows = ln.rows /\ loan_rows' = loan_rows)
          /\ (ln.pos = "loop" /\ ln'.pos = "call")
               => Len(loan_rows') - Len(loan_rows) <= ln.n_loans]_vars

\* a user for whom two loans were drawn: one was emitted and the other one,
\* requested after the end of the window, left no row
OutOfWindowWitness ==
    /\ ln.pos = "loop"
    /\ ln.n_loans = 2
    /\ ln.i = 2
    /\ Len(ln.rows) = 1

(***************************************************************************)
(* C16 - request times accumulate: the request time of a user's i-th loan  *)
(* is signup plus a sum of non-negative gaps, so the request times drawn   *)
(* for one user never decrease from one loan to the next.                  *)
(***************************************************************************)
RequestTimesAccumulate ==
    [][(/\ ln.pos = "loop"
        /\ ln'.u = ln.u
        /\ Present(ln.requested_at)
        /\ ln'.requested_at # ln.requested_at)
           => ln'.requested_at >= ln.requested_at]_vars

(***************************************************************************)
(* C20 - payroll schedule: the payroll credits of a sampled user are       *)
(* posted exactly on the days signup + offset + k * gap (k >= 0, offset    *)
(* drawn once in 0..gap) that fall within the window: none before the      *)
(* signup, the first one at most gap days after it, consecutive ones       *)
(* exactly gap days apart (hence at most one per day), and no due payroll  *)
(* is left out; the gap is 7, 14, 15, 30, 14 for weekly, biweekly,         *)
(* semimonthly, monthly, unknown.                                          *)
(***************************************************************************)
PayrollSchedule ==
    /\ \A u \in 1..Len(users_df) :
          LET rows == SelectSeq(TxnsOf(users_df[u].user_id), LAMBDA r : r.is_payroll = 1)
              f == users_df[u].payroll_frequency
              gap == CASE f = "weekly" -> 7
                       [] f = "biweekly" -> 14
                       [] f = "semimonthly" -> 15
                       [] f = "monthly" -> 30
                       [] f = "unknown" -> 14
              signup == users_df[u].signup_at \div 24
          IN  /\ \A k \in 1..Len(rows) :
                    /\ rows[k].posted_date >= signup
                    /\ rows[k].category = "payroll"
              /\ Len(rows) >= 1 => rows[1].posted_date <= signup + gap
              /\ \A k \in 2..Len(rows) :
                    rows[k].posted_date = rows[k - 1].posted_date + gap
              /\ (pc = "txn" /\ txn.pos \in {"day", "expenses"}
                  /\ txn.sample[txn.k] = u) =>
                    /\ txn.paygap = gap
                    /\ txn.pos = "expenses" => txn.next_pay > txn.day
                    /\ txn.pos = "day" => txn.next_pay >= txn.day
                    /\ IF Len(rows) = 0
                       THEN signup <= txn.next_pay /\ txn.next_pay <= signup + gap
                       ELSE txn.next_pay = rows[Len(rows)].posted_date + gap
    /\ \A k \in 1..Len(txn_rows) :
          txn_rows[k].is_payroll = 1 =>
              \/ \E j \in 1..Len(txn_rows) :
                    /\ txn_rows[j].is_payroll = 1
                    /\ txn_rows[j].user_id = txn_rows[k].user_id
                    /\ txn_rows[j].posted_date > txn_rows[k].posted_date
              \/ txn_rows[k].posted_date
                    + PayGap(users_df[txn_rows[k].user_id].payroll_frequency) > TxnEndDay

\* the ledger of a weekly user who was paid on the day of the signup and
\* again seven days later
PayrollScheduleWitness ==
    /\ pc = "txn_done"
    /\ \E j, k \in 1..Len(txn_rows) :
          /\ txn_rows[j].is_payroll = 1
          /\ txn_rows[k].is_payroll = 1
          /\ txn_rows[j].user_id = txn_rows[k].user_id
          /\ txn_rows[j].posted_date = users_df[txn_rows[j].user_id].signup_at \div 24
          /\ txn_rows[k].posted_date = txn_rows[j].posted_date + 7

ReferentialIntegrity ==
    LET known(uid) == Cardinality({k \in 1..Len(users_df) : users_df[k].user_id = uid}) = 1
    IN  /\ \A k \in 1..Len(assignments) : known(assignments[k].user_id)
        /\ \A k \in 1..Len(sessions) : known(sessions[k].user_id)
        /\ \A k \in 1..Len(EmittedTxns) : known(EmittedTxns[k].user_id)
        /\ \A k \in 1..Len(EmittedLoans) : known(EmittedLoans[k].user_id)

\* a run has ended with rows in all four referring tables
ReferentialWitness ==
    /\ pc = "loans_done"
    /\ Len(assignments) > 0
    /\ Len(sessions) > 0
    /\ Len(txn_rows) > 0
    /\ Len(loan_rows) > 0
    /\ \E k \in 1..Len(loan_rows) : loan_rows[k].user_id = Len(users_df)

ApprovalSameForEveryLoan ==
    /\ LoanInProgress(ln) =>
          ln.approve_p = Max(500000, Min(9500000,
                             8200000 - 600 * users_df[ln.u].baseline_risk_score
                             + (IF users_df[ln.u].device_os = "ios" THEN 300000 ELSE 0)))
    /\ (pc = "loans_done" /\ earlier.runs = 1) =>
          \A x \in ChangedUsers :
              LET a == LoansOfIn(earlier.tables.loans, x)
                  b == LoansOfIn(loan_rows, x)
              IN  \A j \in 1..Len(a), k \in 1..Len(b) :
                      a[j].loan_id = b[k].loan_id
                          => (Present(a[j].approved_at) <=> Present(b[k].approved_at))

(***************************************************************************)
(* C18 - as amended: in two such runs every loan of the user has the same  *)
(* approval probability (a function of the risk score and the device       *)
(* only), and the first loan the user gets inside the window is the same   *)
(* loan, requested at the same time for the same amount, with the same     *)
(* approval outcome and approval time.                                     *)
(***************************************************************************)
ApprovalSameForFirstLoan ==
    /\ LoanInProgress(ln) =>
          ln.approve_p = Max(500000, Min(9500000,
                             8200000 - 600 * users_df[ln.u].baseline_risk_score
                             + (IF users_df[ln.u].device_os = "ios" THEN 300000 ELSE 0)))
    /\ (pc = "loans_done" /\ earlier.runs = 1) =>
          \A x \in ChangedUsers :
              LET a == LoansOfIn(earlier.tables.loans, x)
                  b == LoansOfIn(loan_rows, x)
              IN  /\ Len(a) = 0 <=> Len(b) = 0
                  /\ Len(a) > 0 =>
                        /\ a[1].loan_id = b[1].loan_id
                        /\ a[1].requested_at = b[1].requested_at
                        /\ a[1].amount = b[1].amount
                        /\ a[1].approved_at = b[1].approved_at

\* the second run has ended; the user whose price variant changed got a
\* first loan that was approved in both runs, priced the one way in the
\* first run and the other way in the second
ApprovalWitness ==
    /\ pc = "loans_done"
    /\ earlier.runs = 1
    /\ \E x \in ChangedUsers :
          LET a == LoansOfIn(earlier.tables.loans, x)
              b == LoansOfIn(loan_rows, x)
          IN  /\ Len(a) > 0
              /\ Len(b) > 0
              /\ a[1].price_variant # b[1].price_variant
              /\ Present(a[1].approved_at)
              /\ Present(b[1].approved_at)

(***************************************************************************)
(* C19 - per-user independence: the loan rows produced for a user depend   *)
(* only on the user's attributes, the user's experiment assignments and    *)
(* the position of the shared stream when the user's generation starts:    *)
(* in a second run from the same seed where the user, with the same        *)
(* attributes and assignments, enters at the same stream position, the     *)
(* rows returned are the rows of the first run, whatever the other users.  *)
(***************************************************************************)
PerUserIndependence ==
    ( /\ earlier.runs = 1
      /\ pc = "loans"
      /\ ln.pos = "loop"
      /\ ln.i >= ln.n_loans
      /\ users_df[ln.u] = earlier.user
      /\ AssignmentsOf(assignments, earlier.user.user_id)
           = AssignmentsOf(earlier.tables.ab_assignments, earlier.user.user_id)
      /\ ln.entry = earlier.entry )
        => ln.rows = earlier.rows

\* in the second run the rows of the user are about to be returned; the user
\* entered at the position of the first run, after a user who is not the
\* user of the first run, and has a row
PerUserWitness ==
    /\ earlier.runs = 1
    /\ pc = "loans"
    /\ ln.pos = "loop"
    /\ ln.i >= ln.n_loans
    /\ ln.u > 1
    /\ users_df[ln.u] = earlier.user
    /\ ln.entry = earlier.entry
    /\ users_df[1] # earlier.tables.users[1]
    /\ Len(ln.rows) > 0

(***************************************************************************)
(* C21 - overdraft is allowed: the ledger of a user starts from an initial *)
(* balance >= 0 and is never clamped afterwards: every step that emits a   *)
(* record moves the running balance by exactly the signed amount of the    *)
(* record (emitted rounded to cents) and emits the running balance         *)
(* (rounded to cents) as balance_after; no other step moves the balance.   *)
(* A record with balance_after < 0 is reachable.                           *)
(***************************************************************************)
LedgerUnclamped ==
    [][ /\ (pc = "txn" /\ txn.pos = "call" /\ txn'.pos = "day")
              => (txn'.balance >= 0 /\ txn'.txns = <<>>)
        /\ (pc = "txn" /\ txn.pos # "call" /\ txn'.k = txn.k)
              => IF Len(txn'.txns) = Len(txn.txns) + 1
                 THEN LET r == txn'.txns[Len(txn'.txns)]
                      IN  /\ r.amount = Round2(txn'.balance - txn.balance)
                          /\ r.balance_after = Round2(txn'.balance)
                 ELSE /\ txn'.txns = txn.txns
                      /\ txn'.balance = txn.balance ]_vars

\* a record of an overdrawn ledger has been emitted
OverdraftWitness ==
    \E k \in 1..Len(EmittedTxns) :
        /\ EmittedTxns[k].balance_after < 0
        /\ EmittedTxns[k].direction = "outflow"

(***************************************************************************)
(* C22 - clamp bounds are preserved on every record: each expense has      *)
(* amount <= -5 with direction "outflow" and is_payroll = 0, each payroll  *)
(* has amount >= 400 with direction "inflow", category "payroll" and       *)
(* is_payroll = 1, and each emitted loan has 40 <= amount <= 350.          *)
(***************************************************************************)
ClampBounds ==
    /\ \A k \in 1..Len(EmittedTxns) :
          LET r == EmittedTxns[k]
          IN  /\ r.txn_id[3] = "out" =>
                    /\ r.amount <= 0 - 5000
                    /\ r.direction = "outflow"
                    /\ r.is_payroll = 0
              /\ r.txn_id[3] = "in" =>
                    /\ r.amount >= 400000
                    /\ r.direction = "inflow"
                    /\ r.category = "payroll"
                    /\ r.is_payroll = 1
    /\ \A k \in 1..Len(EmittedLoans) :
          /\ 40000 <= EmittedLoans[k].amount
          /\ EmittedLoans[k].amount <= 350000

\* the run has emitted an expense at the floor of 5, a payroll at the floor
\* of 400, and loans at both ends of the amount band
ClampWitness ==
    /\ \E k \in 1..Len(EmittedTxns) :
          EmittedTxns[k].txn_id[3] = "out" /\ EmittedTxns[k].amount = 0 - 5000
    /\ \E k \in 1..Len(EmittedTxns) :
          EmittedTxns[k].txn_id[3] = "in" /\ EmittedTxns[k].amount = 400000
    /\ \E k \in 1..Len(EmittedLoans) : EmittedLoans[k].amount = 40000
    /\ \E k \in 1..Len(EmittedLoans) : EmittedLoans[k].amount = 350000

(***************************************************************************)
(* C23 - as stated: outcome accounting: a defaulted loan has               *)
(* chargeoff_flag = 1, principal_repaid = 0 and                            *)
(* 0.6*amount <= writeoff_amount <= 0.95*amount; a repaid loan has         *)
(* chargeoff_flag = 0, principal_repaid = amount and writeoff_amount = 0;  *)
(* chargeoff_flag = 1 if and only if status = "default".                   *)
(***************************************************************************)
OutcomeAccounting ==
    \A k \in 1..Len(EmittedLoans) :
        LET r == EmittedLoans[k]
        IN  /\ r.status = "default" =>
                  /\ r.chargeoff_flag = 1
                  /\ r.principal_repaid = 0
                  /\ 600 * r.amount <= 1000 * r.writeoff_amount
                  /\ 1000 * r.writeoff_amount <= 950 * r.amount
            /\ r.status = "repaid" =>
                  /\ r.chargeoff_flag = 0
                  /\ r.principal_repaid = r.amount
                  /\ r.writeoff_amount = 0
            /\ r.chargeoff_flag = 1 <=> r.status = "default"

(***************************************************************************)
(* C23 - as amended: the same, with the write-off of a defaulted loan      *)
(* within one cent of the band: 0.6*amount - 0.01 < writeoff_amount <      *)
(* 0.95*amount + 0.01, the emitted amount and the write-off being rounded  *)
(* to cents separately.                                                    *)
(***************************************************************************)
OutcomeAccountingToTheCent ==
    \A k \in 1..Len(EmittedLoans) :
        LET r == EmittedLoans[k]
        IN  /\ r.status = "default" =>
                  /\ r.chargeoff_flag = 1
                  /\ r.principal_repaid = 0
                  /\ 600 * r.amount - 10000 < 1000 * r.writeoff_amount
                  /\ 1000 * r.writeoff_amount < 950 * r.amount + 10000
            /\ r.status = "repaid" =>
                  /\ r.chargeoff_flag = 0
                  /\ r.principal_repaid = r.amount
                  /\ r.writeoff_amount = 0
            /\ r.chargeoff_flag = 1 <=> r.status = "default"

\* the table is written with a defaulted loan whose write-off, rounded up,
\* is above 0.95 of the amount, rounded down
OutcomeWitness ==
    /\ pc = "loans_done"
    /\ \E k \in 1..Len(loan_rows) :
          /\ loan_rows[k].status = "default"
          /\ loan_rows[k].chargeoff_flag = 1
          /\ 1000 * loan_rows[k].writeoff_amount > 950 * loan_rows[k].amount

(***************************************************************************)
(* C24 - lateness is never negative: every emitted loan, whether repaid,   *)
(* defaulted or not approved, has late_days >= 0.                          *)
(***************************************************************************)
LatenessNonNegative ==
    \A k \in 1..Len(EmittedLoans) : EmittedLoans[k].late_days >= 0

(***************************************************************************)
(* C25 - experiment windows are validated at startup: if an experiment's   *)
(* [start, end] window is not contained in the simulation window           *)
(* [start_date, end_date], the run fails before generating any assignment  *)
(* instead of proceeding.                                                  *)
(***************************************************************************)
WindowsValidated ==
    (\E e \in 1..Len(config.EXPERIMENTS) :
        \/ config.EXPERIMENTS[e].start < start_date
        \/ config.EXPERIMENTS[e].end > end_date)
        => /\ assignments = <<>>
           /\ "ab_assignments.csv" \notin written

(***************************************************************************)
(* C26 - variant labels on loans: every loan of a user carries as          *)
(* price_variant and tip_variant the variants of the user's                *)
(* PriceTest_2025Q2 and TipPrompt_2025Q2 assignment rows when such rows    *)
(* exist, and "A" resp. "control" when the user has no such row; all loans *)
(* of one user carry the same two labels, and a user outside the           *)
(* price-test window has zero fee and zero instant fee on every loan.      *)
(***************************************************************************)
VariantLabels ==
    /\ \A k \in 1..Len(EmittedLoans) :
          LET r == EmittedLoans[k]
              price == {j \in 1..Len(assignments) :
                           /\ assignments[j].user_id = r.user_id
                           /\ assignments[j].experiment_name = "PriceTest_2025Q2"}
              tip == {j \in 1..Len(assignments) :
                         /\ assignments[j].user_id = r.user_id
                         /\ assignments[j].experiment_name = "TipPrompt_2025Q2"}
          IN  /\ IF price = {} THEN r.price_variant = "A"
                  ELSE \A j \in price : assignments[j].variant = r.price_variant
              /\ IF tip = {} THEN r.tip_variant = "control"
                  ELSE \A j \in tip : assignments[j].variant = r.tip_variant
              /\ \A u \in 1..Len(users_df) :
                    (/\ users_df[u].user_id = r.user_id
                     /\ ~(/\ EXPERIMENTS[1].start <= users_df[u].signup_at
                          /\ users_df[u].signup_at <= EXPERIMENTS[1].end))
                        => (r.fee = 0 /\ r.instant_transfer_fee = 0)
    /\ \A k, j \in 1..Len(EmittedLoans) :
          EmittedLoans[k].user_id = EmittedLoans[j].user_id
              => /\ EmittedLoans[k].price_variant = EmittedLoans[j].price_variant
                 /\ EmittedLoans[k].tip_variant = EmittedLoans[j].tip_variant

\* the loans are written: a user assigned to "B" and to a tip prompt other
\* than the control has two loans, and a user outside the windows has a loan
VariantLabelsWitness ==
    /\ pc = "loans_done"
    /\ \E k, j \in 1..Len(loan_rows) :
          /\ k # j
          /\ loan_rows[k].user_id = loan_rows[j].user_id
          /\ loan_rows[k].price_variant = "B"
          /\ loan_rows[k].tip_variant # "control"
    /\ \E k \in 1..Len(loan_rows) :
          /\ \A j \in 1..Len(assignments) : assignments[j].user_id # loan_rows[k].user_id
          /\ loan_rows[k].price_variant = "A"

(***************************************************************************)
(* C27 - transaction identifiers are unique: no two emitted transaction    *)
(* rows (of the same or different users, on the same or different days)    *)
(* share a txn_id.                                                         *)
(***************************************************************************)
TxnIdsUnique ==
    \A k, j \in 1..Len(EmittedTxns) :
        EmittedTxns[k].txn_id = EmittedTxns[j].txn_id => k = j

(***************************************************************************)
(* data_reader.handle_duplicates (data_reader.py lines 21-66), called by   *)
(* load_csv_files on the frame pd.read_csv returns.  A value of the id     *)
(* column is the sequence of the parts of the string that "-" separates:   *)
(* "a-dup-1" is <<"a", "dup", 1>>.                                         *)
(***************************************************************************)
\* the generator's variables
generator ==
    <<users, users_df, assignments, sessions, txn_rows, loan_rows, written, pc,
      asg, ses, txn, ln, rng, config, earlier>>

\* the generator is not running
GeneratorIdle ==
    /\ users = <<>>
    /\ users_df = <<>>
    /\ assignments = <<>>
    /\ sessions = <<>>
    /\ txn_rows = <<>>
    /\ loan_rows = <<>>
    /\ written = {}
    /\ pc = "idle"
    /\ asg = asg0
    /\ ses = ses0
    /\ txn = txn0
    /\ ln = ln0
    /\ rng = FreeStream
    /\ config = SourceConfig
    /\ earlier = NoRun

\* the longest frame handed to handle_duplicates
MaxRows == 3

\* constants.py lines 35-40
DUPLICATE_HANDLING ==
    [f \in {"transactions.csv"} |-> [id_column |-> "txn_id", strategy |-> "append_index"]]

\* the files, the columns and the values of the first column of the frames
FileDraws == {"transactions.csv", "loans.csv"}

ColumnDraws == {<<"txn_id", "amount">>, <<"loan_id", "amount">>}

IdDraws == {<<"a">>, <<"b">>, <<"a", "dup", 1>>}

\* the frames pd.read_csv returns: a RangeIndex from 0, the columns, the
\* values of the first column
FrameDraws ==
    UNION {{[columns |-> cols, index |-> [k \in 1..n |-> k - 1], first |-> vals] :
                cols \in ColumnDraws, vals \in [1..n -> IdDraws]} : n \in 0..MaxRows}

\* line 46: Series.duplicated(keep=False)
DuplicateMask(vals) ==
    [k \in 1..Len(vals) |-> \E j \in 1..Len(vals) : j # k /\ vals[j] = vals[k]]

\* lines 58-59: "-dup-" + index
DupSuffix(idx) == <<"dup", idx>>

\* lines 35-66
HandleDuplicates ==
    /\ dataframe.pos = "call"
    /\ LET filename == dataframe.filename
           frame == dataframe.frame
       IN  IF filename \notin DOMAIN DUPLICATE_HANDLING
           THEN dataframe' = [dataframe EXCEPT !.pos = "returned"]
           ELSE LET cfg == DUPLICATE_HANDLING[filename]
                    id_column == cfg.id_column
                    strategy == cfg.strategy
                    duplicate_mask == DuplicateMask(frame.first)
                IN  IF id_column \notin Range(frame.columns)
                    THEN dataframe' = [dataframe EXCEPT !.pos = "returned"]
                    ELSE IF \A k \in 1..Len(frame.first) : ~duplicate_mask[k]
                    THEN dataframe' = [dataframe EXCEPT !.pos = "returned"]
                    ELSE IF strategy = "append_index"
                    THEN dataframe' =
                           [dataframe EXCEPT
                               !.pos = "returned",
                               !.frame.first =
                                   [k \in 1..Len(frame.first) |->
                                       IF duplicate_mask[k]
                                       THEN frame.first[k] \o DupSuffix(frame.index[k])
                                       ELSE frame.first[k]]]
                    ELSE dataframe' = [dataframe EXCEPT !.pos = "DataQualityError"]
    /\ UNCHANGED <<generator, loader, dq>>

\* data_reader.py lines 105-106: the frame that was read is handed over;
\* given keeps it as it was read
InitDup ==
    /\ GeneratorIdle
    /\ loader = [pc |-> "idle"]
    /\ dq = [pc |-> "idle"]
    /\ dataframe \in {[pos |-> "call", filename |-> f, frame |-> fr, given |-> fr] :
                         f \in FileDraws, fr \in FrameDraws}

NextDup == HandleDuplicates

SpecDup == InitDup /\ [][NextDup]_vars

(***************************************************************************)
(* C28 - handle_duplicates with the append_index strategy repairs          *)
(* uniqueness without losing data: for a file configured in                *)
(* DUPLICATE_HANDLING the returned frame has the same number of rows,      *)
(* rows whose id was already unique keep their id, and afterwards no two   *)
(* rows share a value in the id column; a file not configured, or lacking  *)
(* the id column, is returned unchanged.                                   *)
(***************************************************************************)
DuplicatesRepaired ==
    dataframe.pos = "returned" =>
        LET after == dataframe.frame
            before == dataframe.given
        IN  IF /\ dataframe.filename \in DOMAIN DUPLICATE_HANDLING
               /\ DUPLICATE_HANDLING[dataframe.filename].id_column \in Range(after.columns)
            THEN /\ Len(after.first) = Len(before.first)
                 /\ after.index = before.index
                 /\ \A k \in 1..Len(before.first) :
                       (\A j \in 1..Len(before.first) :
                           before.first[j] = before.first[k] => j = k)
                           => after.first[k] = before.first[k]
                 /\ \A k, j \in 1..Len(after.first) :
                       after.first[k] = after.first[j] => k = j
            ELSE after = before

(***************************************************************************)
(* duckdb_pipeline.DuckDBLoader.load_all_data (duckdb_pipeline.py lines    *)
(* 152-201) with the methods it calls.  What the file system and DuckDB    *)
(* answer (a directory or a SQL file exists, a statement or an insert      *)
(* succeeds) is chosen at the step that asks.  loader.log lists the steps  *)
(* entered, loader.csv_read the files load_csv_files read.                 *)
(***************************************************************************)
\* constants.py lines 12-33, in the order of the dict
TABLE_CONFIG ==
    << [table |-> "dim_users", csv_file |-> "users.csv"],
       [table |-> "fct_sessions", csv_file |-> "sessions.csv"],
       [table |-> "fct_transactions", csv_file |-> "transactions.csv"],
       [table |-> "fct_loans", csv_file |-> "loans.csv"],
       [table |-> "ab_assignments", csv_file |-> "ab_assignments.csv"] >>

\* the csv files the data directory can hold
CsvDraws == {TABLE_CONFIG[k].csv_file : k \in 1..Len(TABLE_CONFIG)}

loader0 ==
    [pc |-> "start", log |-> <<>>, csv_read |-> {}, datasets |-> {}, error |-> "none",
     sql_missing |-> {}, sql_run |-> <<>>, table |-> 0, tables_loaded |-> 0,
     loaded |-> <<>>, failed |-> {}, absent |-> {}]

\* lines 148-150: except ... continue
AfterFailure(k) == k + 1

\* lines 43-73: execute_sql_file, for a file that exists or not and
\* statements that run or not
ExecuteSqlFile(l, file, exists, ok, next) ==
    IF ~exists
    THEN [l EXCEPT !.sql_missing = @ \cup {file}, !.pc = next]
    ELSE IF ok
    THEN [l EXCEPT !.sql_run = Append(@, file), !.pc = next]
    ELSE [l EXCEPT !.pc = "raised", !.error = "DatabaseError"]

\* lines 170-175 and data_reader.py lines 83-120: step 1
LoaderReadCsv ==
    /\ loader.pc = "start"
    /\ \E dir_exists \in BOOLEAN, files \in SUBSET CsvDraws :
         LET l == [loader EXCEPT !.log = Append(@, "read")]
         IN  IF ~dir_exists
             THEN /\ files = {}
                  /\ loader' = [l EXCEPT !.pc = "raised", !.error = "FileNotFoundError"]
             ELSE IF files = {}
             THEN loader' = [l EXCEPT !.pc = "raised", !.error = "DatabaseError"]
             ELSE loader' = [l EXCEPT !.pc = "drop", !.csv_read = files, !.datasets = files]
    /\ UNCHANGED <<generator, dataframe, dq>>

\* lines 177-179 and 75-79: step 2
LoaderDropSchema ==
    /\ loader.pc = "drop"
    /\ \E exists \in BOOLEAN, ok \in BOOLEAN :
         /\ ~exists => ok
         /\ loader' = ExecuteSqlFile([loader EXCEPT !.log = Append(@, "drop")],
                                     "drop_schema.sql", exists, ok, "create")
    /\ UNCHANGED <<generator, dataframe, dq>>

\* lines 181-183 and 83-91: step 3
LoaderCreateSchema ==
    /\ loader.pc = "create"
    /\ \E exists \in BOOLEAN, ok \in BOOLEAN :
         /\ ~exists => ok
         /\ LET l == [loader EXCEPT !.log = Append(@, "create")]
            IN  IF ~exists
                THEN loader' = [l EXCEPT !.sql_missing = @ \cup {"schema.sql"},
                                         !.pc = "raised", !.error = "DatabaseError"]
                ELSE loader' = ExecuteSqlFile(l, "schema.sql", exists, ok, "load")
    /\ UNCHANGED <<generator, dataframe, dq>>

\* lines 185-187 and 126-130: step 4 is entered
LoaderLoadBegin ==
    /\ loader.pc = "load"
    /\ loader' = [loader EXCEPT !.log = Append(@, "load"), !.pc = "load_loop",
                                !.table = 1, !.tables_loaded = 0]
    /\ UNCHANGED <<generator, dataframe, dq>>

\* lines 132-150: one iteration of the loop over TABLE_CONFIG
LoaderLoadTable ==
    /\ loader.pc = "load_loop"
    /\ loader.table <= Len(TABLE_CONFIG)
    /\ LET k == loader.table
           table_name == TABLE_CONFIG[k].table
           csv_filename == TABLE_CONFIG[k].csv_file
       IN  IF csv_filename \notin loader.datasets
           THEN loader' = [loader EXCEPT !.absent = @ \cup {table_name}, !.table = k + 1]
           ELSE \E ok \in BOOLEAN :
                  IF ok
                  THEN loader' = [loader EXCEPT !.loaded = Append(@, table_name),
                                               !.tables_loaded = @ + 1,
                                               !.table = k + 1]
                  ELSE loader' = [loader EXCEPT !.failed = @ \cup {table_name},
                                               !.table = AfterFailure(k)]
    /\ UNCHANGED <<generator, dataframe, dq>>

\* line 150: return tables_loaded
LoaderLoadEnd ==
    /\ loader.pc = "load_loop"
    /\ loader.table > Len(TABLE_CONFIG)
    /\ loader' = [loader EXCEPT !.pc = "views"]
    /\ UNCHANGED <<generator, dataframe, dq>>

\* lines 189-197 and 93-97: step 5 and the return
LoaderCreateViews ==
    /\ loader.pc = "views"
    /\ \E exists \in BOOLEAN, ok \in BOOLEAN :
         /\ ~exists => ok
         /\ loader' = ExecuteSqlFile([loader EXCEPT !.log = Append(@, "views")],
                                     "canonical_views.sql", exists, ok, "done")
    /\ UNCHANGED <<generator, dataframe, dq>>

InitLoader ==
    /\ GeneratorIdle
    /\ dataframe = [pos |-> "idle"]
    /\ dq = [pc |-> "idle"]
    /\ loader = loader0

NextLoader ==
    \/ LoaderReadCsv
    \/ LoaderDropSchema
    \/ LoaderCreateSchema
    \/ LoaderLoadBegin
    \/ LoaderLoadTable
    \/ LoaderLoadEnd
    \/ LoaderCreateViews

SpecLoader == InitLoader /\ [][NextLoader]_vars

\* the steps of load_all_data in the order of lines 170-191
PipelineSteps == <<"read", "drop", "create", "load", "views">>

(***************************************************************************)
(* C29 - Load pipeline ordering: load_all_data performs its steps strictly *)
(* in the order read CSVs, drop schema, create schema, load tables, create *)
(* views; if no dataset was read it raises DatabaseError before dropping   *)
(* or creating anything, and if schema.sql is missing it raises            *)
(* DatabaseError before any table is loaded, whereas a failure to load one *)
(* individual table is skipped and the remaining tables are still loaded.  *)
(***************************************************************************)
LoadPipelineOrdering ==
    /\ Len(loader.log) <= Len(PipelineSteps)
    /\ loader.log = SubSeq(PipelineSteps, 1, Len(loader.log))
    /\ (loader.pc # "start" /\ loader.csv_read = {}) =>
          /\ loader.pc = "raised"
          /\ loader.error = "DatabaseError"
          /\ loader.log = <<"read">>
          /\ loader.sql_run = <<>>
    /\ "schema.sql" \in loader.sql_missing =>
          /\ loader.pc = "raised"
          /\ loader.error = "DatabaseError"
          /\ loader.loaded = <<>>
    /\ loader.pc \in {"views", "done"} =>
          Range(loader.loaded) =
              {TABLE_CONFIG[k].table : k \in {j \in 1..Len(TABLE_CONFIG) :
                                                TABLE_CONFIG[j].csv_file \in loader.datasets}}
                  \ loader.failed

(***************************************************************************)
(* data_quality_runner.DataQualityRunner (data_quality_runner.py) and      *)
(* main.  The views are defined in sql/data_quality_checks.sql; what a     *)
(* query on a view answers (it raises, it returns no row, it returns rows  *)
(* whose last column is "PASS" or "FAIL") is chosen at the step that runs  *)
(* it.  dq.raised lists the categories whose query raised.                 *)
(***************************************************************************)
\* lines 88-101, in the order of the dict
check_categories ==
    << "row_count_reconciliation", "null_key_checks", "referential_integrity",
       "transaction_validations", "loan_validations", "user_validations",
       "session_validations", "ab_test_validations", "risk_row_counts",
       "risk_timestamp_validations", "risk_ratio_validations",
       "risk_distribution_checks" >>

\* how many categories answer something else than rows that all pass
MaxTrouble == 2

\* what SELECT * FROM <view> answers: an exception, or the rows' statuses
ViewDraws == {"raise", "empty", "rows_pass", "rows_fail"}

dq0 ==
    [pc |-> "start", category |-> 0, categories |-> <<>>, raised |-> {},
     trouble |-> 0, summary |-> "none", overall_status |-> "none",
     total_failed_checks |-> 0, exit_code |-> -1]

\* lines 130-132 and 144-146: the failed checks of the categories in the report
RECURSIVE CategoriesFailed(_)
CategoriesFailed(cats) ==
    IF cats = <<>> THEN 0
    ELSE Head(cats).failed_checks + CategoriesFailed(Tail(cats))

\* lines 46-63 and 275-277: execute_dq_checks
DqExecuteChecks ==
    /\ dq.pc = "start"
    /\ \E ok \in BOOLEAN :
         IF ok
         THEN dq' = [dq EXCEPT !.pc = "categories", !.category = 1]
         ELSE dq' = [dq EXCEPT !.pc = "exit", !.exit_code = 2]
    /\ UNCHANGED <<generator, dataframe, loader>>

\* lines 104-112 with run_check_category (lines 65-74): one category
DqRunCategory ==
    /\ dq.pc = "categories"
    /\ dq.category <= Len(check_categories)
    /\ \E answer \in ViewDraws :
         /\ answer # "rows_pass" => dq.trouble < MaxTrouble
         /\ LET category == check_categories[dq.category]
                d == [dq EXCEPT !.category = @ + 1,
                                !.trouble = IF answer = "rows_pass" THEN @ ELSE @ + 1]
            IN  IF answer = "raise"
                THEN dq' = [d EXCEPT !.raised = @ \cup {category}]
                ELSE IF answer = "empty"
                THEN dq' = d
                ELSE dq' = [d EXCEPT !.categories =
                              Append(@, [category |-> category,
                                         total_checks |-> 2,
                                         failed_checks |->
                                             IF answer = "rows_fail" THEN 1 ELSE 0])]
    /\ UNCHANGED <<generator, dataframe, loader>>

\* lines 114-154: the summary with its two fallbacks
DqSummary ==
    /\ dq.pc = "categories"
    /\ dq.category > Len(check_categories)
    /\ \E extended \in {"raise", "rows"}, failed_checks \in 0..1, basic \in {"raise", "rows"} :
         /\ extended = "rows" => basic = "rows"
         /\ extended = "raise" => failed_checks = 0
         /\ LET total_failed ==
                    IF extended = "rows" THEN failed_checks
                    ELSE CategoriesFailed(dq.categories)
            IN  dq' = [dq EXCEPT
                          !.pc = "reported",
                          !.summary = IF extended = "rows" THEN "extended"
                                      ELSE IF basic = "rows" THEN "basic"
                                      ELSE "categories",
                          !.overall_status = IF total_failed = 0 THEN "PASS" ELSE "FAIL",
                          !.total_failed_checks = total_failed]
    /\ UNCHANGED <<generator, dataframe, loader>>

\* lines 279-312: the report is printed and saved, main returns
DqExit ==
    /\ dq.pc = "reported"
    /\ \E printed \in BOOLEAN :
         dq' = [dq EXCEPT !.pc = "exit",
                          !.exit_code = IF ~printed THEN 2
                                        ELSE IF dq.overall_status = "PASS" THEN 0
                                        ELSE 1]
    /\ UNCHANGED <<generator, dataframe, loader>>

InitDq ==
    /\ GeneratorIdle
    /\ dataframe = [pos |-> "idle"]
    /\ loader = [pc |-> "idle"]
    /\ dq = dq0

NextDq == DqExecuteChecks \/ DqRunCategory \/ DqSummary \/ DqExit

SpecDq == InitDq /\ [][NextDq]_vars

(***************************************************************************)
(* C30 - The data-quality report's overall_status is "PASS" only if every  *)
(* one of the twelve configured check categories was actually executed and *)
(* reported zero failed checks; a category whose view query raises is      *)
(* never counted as passing.                                               *)
(***************************************************************************)
PassOnlyIfEveryCategoryPassed ==
    dq.overall_status = "PASS" =>
        /\ dq.raised = {}
        /\ {dq.categories[k].category : k \in 1..Len(dq.categories)}
               = Range(check_categories)
        /\ \A k \in 1..Len(dq.categories) : dq.categories[k].failed_checks = 0

====
